---- MODULE Spec2Model ----
(***************************************************************************)
(* CHIRP audio trigger firmware: the per-stream RingBuffer (config.h) and  *)
(* the MP4/M4A container parser (mp4_parser.cpp) as state machines.        *)
(*                                                                         *)
(* Spec      the RingBuffer with push, pop and clear as atomic operations  *)
(* SpecSPSC  the RingBuffer with one producer and one consumer interleaved *)
(*           at the granularity of single reads and writes                 *)
(* SpecAdts  generateAdtsHeader applied to bounded inputs                  *)
(* SpecMp4   one MP4Parser instance: one open, then readNextFrame calls    *)
(* SpecMp4Reuse  one MP4Parser instance opened again and again            *)
(***************************************************************************)
EXTENDS Integers, Sequences, FiniteSets, TLC

VARIABLES
    readPos,      \* RingBuffer::readPos
    writePos,     \* RingBuffer::writePos
    buffer,       \* RingBuffer::buffer, the cells in PSRAM
    rbLast,       \* history: the last operation on the buffer
    rbPrev,       \* history: the successful push right before a pop, if any
    pushRun,      \* history: successful pushes since the last pop or clear
    prod,         \* SpecSPSC: the producer context inside push
    cons,         \* SpecSPSC: the consumer context inside availableForRead/pop
    inFlight,     \* SpecSPSC: history, accepted samples not yet popped
    adts,         \* SpecAdts: inputs and output of generateAdtsHeader
    parser,       \* SpecMp4: the fields of one MP4Parser
    file,         \* SpecMp4: the file behind the parser's handle
    walk,         \* SpecWalk: the position and the locals of a running open
    streams,      \* SpecStreams: the AudioStream slots
    mp3DecoderInUse,  \* SpecStreams: the in-use flags of the MP3 decoder pool
    aacDecoderInUse,  \* SpecStreams: the in-use flags of the AAC decoder pool
    stLast,       \* SpecStreams: history, the last stream operation
    volume,       \* SpecVolume: AudioStream::volume of every slot
    fb,           \* SpecFeedback: a call of playVoiceFeedback and stream 0
    fs,           \* SpecLocks: the call stack and the locks of the main context
    msc,          \* SpecMsc: g_mscActive, the jumper and pollMSCTrigger's statics
    cmd,          \* SpecSerial: the statics of processSerialCommands
    sounds,       \* SpecVariant: bank1Sounds, one sound
    twin,         \* SpecMp4Twin: a freshly constructed MP4Parser on the same file
    mpLast        \* SpecMp4: history of the last parser call

rbVars   == <<readPos, writePos, buffer>>
histVars == <<rbLast, rbPrev, pushRun>>
spscVars == <<prod, cons, inFlight>>
mp4Vars  == <<parser, file, mpLast>>
vars     == <<readPos, writePos, buffer, rbLast, rbPrev, pushRun,
              prod, cons, inFlight, adts, parser, file, mpLast, walk,
              streams, mp3DecoderInUse, aacDecoderInUse, stLast, volume, fb, fs,
              msc, cmd, sounds, twin>>
ctlVars == <<msc, cmd, sounds, twin>>
streamVars == <<streams, mp3DecoderInUse, aacDecoderInUse, stLast, volume, fb, fs, ctlVars>>

(***************************************************************************)
(* Bit operations as the C operators compute them on two's complement      *)
(* integers (\div rounds down, so a negative number keeps its sign bits).  *)
(***************************************************************************)
RECURSIVE BitAnd(_, _)
BitAnd(a, b) ==
    IF a = 0 \/ b = 0 THEN 0
    ELSE IF a = -1 THEN b
    ELSE IF b = -1 THEN a
    ELSE (IF a % 2 = 1 /\ b % 2 = 1 THEN 1 ELSE 0) + 2 * BitAnd(a \div 2, b \div 2)

RECURSIVE BitOr(_, _)
BitOr(a, b) ==
    IF a = 0 THEN b
    ELSE IF b = 0 THEN a
    ELSE IF a = -1 \/ b = -1 THEN -1
    ELSE (IF a % 2 = 1 \/ b % 2 = 1 THEN 1 ELSE 0) + 2 * BitOr(a \div 2, b \div 2)

Shl(a, n) == a * (2 ^ n)
Shr(a, n) == a \div (2 ^ n)

(***************************************************************************)
(* RingBuffer (config.h).  The global streamBufferSize is a power of two   *)
(* and streamBufferMask is streamBufferSize - 1.                           *)
(***************************************************************************)
BufferBits == 2
streamBufferSize == 2 ^ BufferBits
streamBufferMask == streamBufferSize - 1

Samples == {0, 1}                \* the int16_t samples the model pushes
Cells == 0 .. (streamBufferSize - 1)

\* buffer is the PSRAM block; the model's buffers are allocated (non-null).
hasBuffer == TRUE

Level(wp, rp) == BitAnd(wp - rp + streamBufferSize, streamBufferMask)

availableForWriteOffByOne ==
    IF ~hasBuffer THEN 0
    ELSE streamBufferSize - Level(writePos, readPos)
availableForWrite ==
    IF ~hasBuffer THEN 0
    ELSE (streamBufferSize - 1) - Level(writePos, readPos)

availableForRead ==
    IF ~hasBuffer THEN 0
    ELSE Level(writePos, readPos)

NextWriteNoMask(wp) == wp + 1
NextWrite(wp) == BitAnd(wp + 1, streamBufferMask)

\* the "Buffer Full - Drop sample" test of push
IsFullNever(nextWrite, rp) == FALSE
IsFull(nextWrite, rp) == nextWrite = rp

NoPush == [op |-> "none", sample |-> 0, ok |-> FALSE, level |-> 0]

\* bool push(int16_t sample)
PushStoreAfterAdvance(sample) ==
    /\ LET nextWrite == NextWrite(writePos)
           ok == hasBuffer /\ ~IsFull(nextWrite, readPos)
       IN /\ IF ok
             THEN /\ buffer' = [buffer EXCEPT ![nextWrite] = sample]
                  /\ writePos' = nextWrite
             ELSE UNCHANGED <<buffer, writePos>>
          /\ rbLast' = [op |-> "push", sample |-> sample, ok |-> ok,
                        level |-> availableForRead]
          /\ pushRun' = IF ok THEN pushRun + 1 ELSE pushRun
    /\ rbPrev' = NoPush
    /\ UNCHANGED readPos
PushOverwriteOldest(sample) ==
    /\ LET nextWrite == NextWrite(writePos)
           full == IsFull(nextWrite, readPos)
       IN /\ hasBuffer
          /\ buffer' = [buffer EXCEPT ![writePos] = sample]
          /\ writePos' = nextWrite
          /\ readPos' = IF full THEN NextWrite(readPos) ELSE readPos
          /\ rbLast' = [op |-> "push", sample |-> sample, ok |-> TRUE,
                        level |-> availableForRead]
          /\ pushRun' = IF full THEN pushRun ELSE pushRun + 1
    /\ rbPrev' = NoPush
Push(sample) ==
    /\ LET nextWrite == NextWrite(writePos)
           ok == hasBuffer /\ ~IsFull(nextWrite, readPos)
       IN /\ IF ok
             THEN /\ buffer' = [buffer EXCEPT ![writePos] = sample]
                  /\ writePos' = nextWrite
             ELSE UNCHANGED <<buffer, writePos>>
          /\ rbLast' = [op |-> "push", sample |-> sample, ok |-> ok,
                        level |-> availableForRead]
          /\ pushRun' = IF ok THEN pushRun + 1 ELSE pushRun
    /\ rbPrev' = NoPush
    /\ UNCHANGED readPos

\* int16_t pop(): no emptiness test, the caller checks availableForRead()
PopNewest ==
    /\ hasBuffer
    /\ LET sample == buffer[BitAnd(writePos + streamBufferMask, streamBufferMask)]
       IN rbLast' = [op |-> "pop", sample |-> sample, ok |-> TRUE,
                     level |-> availableForRead]
    /\ readPos' = BitAnd(readPos + 1, streamBufferMask)
    /\ rbPrev' = IF rbLast.op = "push" /\ rbLast.ok THEN rbLast ELSE NoPush
    /\ pushRun' = 0
    /\ UNCHANGED <<writePos, buffer>>
Pop ==
    /\ hasBuffer
    /\ LET sample == buffer[readPos]
       IN rbLast' = [op |-> "pop", sample |-> sample, ok |-> TRUE,
                     level |-> availableForRead]
    /\ readPos' = BitAnd(readPos + 1, streamBufferMask)
    /\ rbPrev' = IF rbLast.op = "push" /\ rbLast.ok THEN rbLast ELSE NoPush
    /\ pushRun' = 0
    /\ UNCHANGED <<writePos, buffer>>

\* void clear()
ClearReadPosOnly ==
    /\ readPos' = 0
    /\ rbLast' = [op |-> "clear", sample |-> 0, ok |-> TRUE,
                  level |-> availableForRead]
    /\ rbPrev' = NoPush
    /\ pushRun' = 0
    /\ UNCHANGED <<writePos, buffer>>
Clear ==
    /\ readPos' = 0
    /\ writePos' = 0
    /\ rbLast' = [op |-> "clear", sample |-> 0, ok |-> TRUE,
                  level |-> availableForRead]
    /\ rbPrev' = NoPush
    /\ pushRun' = 0
    /\ UNCHANGED buffer

(***************************************************************************)
(* Idle values of the variables a specification does not use.              *)
(***************************************************************************)
ProdIdle == [pc |-> "idle", sample |-> 0, nextWrite |-> 0]
ConsIdle == [pc |-> "idle", wp |-> 0, fifoOk |-> TRUE]
AdtsIdle == [len |-> 0, sampleRate |-> 0, channels |-> 0, header |-> <<>>]
ParserIdle == [stszOffset |-> 0]
MpIdle == [op |-> "none"]
WalkIdle == [pc |-> "idle"]
FbIdle == [pc |-> "idle"]
VolumeIdle == <<>>
FsIdle == [stack |-> <<>>]
CtlIdle == msc = <<>> /\ cmd = <<>> /\ sounds = <<>> /\ twin = <<>>
StreamsIdle ==
    /\ streams = <<>> /\ mp3DecoderInUse = <<>> /\ aacDecoderInUse = <<>>
    /\ stLast = [op |-> "none"]
    /\ volume = VolumeIdle /\ fb = FbIdle /\ fs = FsIdle /\ CtlIdle

RingInit ==
    /\ readPos = 0
    /\ writePos = 0
    /\ buffer \in [Cells -> Samples]     \* PSRAM is not initialised
    /\ rbLast = NoPush
    /\ rbPrev = NoPush
    /\ pushRun = 0

Init ==
    /\ RingInit
    /\ prod = ProdIdle /\ cons = ConsIdle /\ inFlight = <<>>
    /\ adts = AdtsIdle
    /\ parser = ParserIdle /\ file = <<>> /\ mpLast = MpIdle
    /\ walk = WalkIdle
    /\ StreamsIdle

Next ==
    \/ \E s \in Samples : Push(s) /\ UNCHANGED <<spscVars, adts, mp4Vars, walk, streamVars>>
    \/ Pop /\ UNCHANGED <<spscVars, adts, mp4Vars, walk, streamVars>>
    \/ Clear /\ UNCHANGED <<spscVars, adts, mp4Vars, walk, streamVars>>

Spec == Init /\ [][Next]_vars

(***************************************************************************)
(* SpecSPSC: one producer context inside push and one consumer context     *)
(* that calls pop only after availableForRead() > 0.  Every step is one    *)
(* read or one write of readPos, writePos or a buffer cell, in program     *)
(* order.                                                                  *)
(***************************************************************************)
\* push: int nextWrite = (writePos + 1) & streamBufferMask;
ProdReadWritePos(sample) ==
    /\ prod.pc = "idle"
    /\ prod' = [prod EXCEPT !.pc = "check", !.sample = sample,
                            !.nextWrite = NextWrite(writePos)]
    /\ UNCHANGED <<rbVars, cons, inFlight>>

\* push: if (nextWrite == readPos) return false;
ProdCheck ==
    /\ prod.pc = "check"
    /\ prod' = IF IsFull(prod.nextWrite, readPos)
               THEN ProdIdle               \* return false: the locals die
               ELSE [prod EXCEPT !.pc = "store"]
    /\ UNCHANGED <<rbVars, cons, inFlight>>

\* push: buffer[writePos] = sample;
ProdStoreAtNextWrite ==
    /\ prod.pc = "store"
    /\ buffer' = [buffer EXCEPT ![prod.nextWrite] = prod.sample]
    /\ prod' = [prod EXCEPT !.pc = "publish"]
    /\ UNCHANGED <<readPos, writePos, cons, inFlight>>
ProdStore ==
    /\ prod.pc = "store"
    /\ buffer' = [buffer EXCEPT ![writePos] = prod.sample]
    /\ prod' = [prod EXCEPT !.pc = "publish"]
    /\ UNCHANGED <<readPos, writePos, cons, inFlight>>

\* push: writePos = nextWrite; return true;
ProdPublish ==
    /\ prod.pc = "publish"
    /\ writePos' = prod.nextWrite
    /\ inFlight' = Append(inFlight, prod.sample)
    /\ prod' = ProdIdle
    /\ UNCHANGED <<readPos, buffer, cons>>

\* availableForRead: the read of writePos
ConsReadWritePos ==
    /\ cons.pc = "idle"
    /\ cons' = [cons EXCEPT !.pc = "avail", !.wp = writePos]
    /\ UNCHANGED <<rbVars, prod, inFlight>>

\* availableForRead: the read of readPos and the result; the consumer goes on
\* to pop only when the result is > 0
ConsAvail ==
    /\ cons.pc = "avail"
    /\ LET avail == Level(cons.wp, readPos)
       IN cons' = [cons EXCEPT !.wp = 0,
                               !.pc = IF avail > 0 THEN "read" ELSE "idle"]
    /\ UNCHANGED <<rbVars, prod, inFlight>>

\* pop: int16_t sample = buffer[readPos];
ConsRead ==
    /\ cons.pc = "read"
    /\ cons' = [cons EXCEPT !.pc = "advance",
                   !.fifoOk = inFlight # <<>> /\ Head(inFlight) = buffer[readPos]]
    /\ inFlight' = IF inFlight = <<>> THEN inFlight ELSE Tail(inFlight)
    /\ UNCHANGED <<rbVars, prod>>

\* pop: readPos = (readPos + 1) & streamBufferMask; return sample;
ConsAdvance ==
    /\ cons.pc = "advance"
    /\ readPos' = BitAnd(readPos + 1, streamBufferMask)
    /\ cons' = [cons EXCEPT !.pc = "idle"]
    /\ UNCHANGED <<writePos, buffer, prod, inFlight>>

\* a value no push stores: it marks the cells the producer has not written
Unwritten == -(2 ^ 15)

InitSPSC ==
    /\ readPos = 0
    /\ writePos = 0
    /\ buffer = [c \in Cells |-> Unwritten]
    /\ rbLast = NoPush
    /\ rbPrev = NoPush
    /\ pushRun = 0
    /\ prod = ProdIdle /\ cons = ConsIdle /\ inFlight = <<>>
    /\ adts = AdtsIdle
    /\ parser = ParserIdle /\ file = <<>> /\ mpLast = MpIdle
    /\ walk = WalkIdle
    /\ StreamsIdle

NextSPSC ==
    \/ \E s \in Samples : ProdReadWritePos(s) /\ UNCHANGED <<histVars, adts, mp4Vars, walk, streamVars>>
    \/ ProdCheck /\ UNCHANGED <<histVars, adts, mp4Vars, walk, streamVars>>
    \/ ProdStore /\ UNCHANGED <<histVars, adts, mp4Vars, walk, streamVars>>
    \/ ProdPublish /\ UNCHANGED <<histVars, adts, mp4Vars, walk, streamVars>>
    \/ ConsReadWritePos /\ UNCHANGED <<histVars, adts, mp4Vars, walk, streamVars>>
    \/ ConsAvail /\ UNCHANGED <<histVars, adts, mp4Vars, walk, streamVars>>
    \/ ConsRead /\ UNCHANGED <<histVars, adts, mp4Vars, walk, streamVars>>
    \/ ConsAdvance /\ UNCHANGED <<histVars, adts, mp4Vars, walk, streamVars>>

SpecSPSC == InitSPSC /\ [][NextSPSC]_vars

(***************************************************************************)
(* Claims about the RingBuffer.                                            *)
(***************************************************************************)
\* C1: after any sequence of push, pop and clear,
\* availableForRead() + availableForWrite() = N - 1.
ThmC1 == availableForRead + availableForWrite = streamBufferSize - 1
\* a wrapped buffer (writePos behind readPos) reached by pushes and pops
WitC1 == rbLast.op = "pop" /\ writePos < readPos /\ availableForRead > 0

\* C2 as stated: a pop right after a successful push(v) returns v.
OrigC2 == (rbLast.op = "pop" /\ rbPrev.op = "push") => rbLast.sample = rbPrev.sample
\* C2 amended: a pop right after a successful push(v) ON AN EMPTY BUFFER
\* returns v (otherwise the pop returns the oldest stored sample).
ThmC2 ==
    (rbLast.op = "pop" /\ rbPrev.op = "push" /\ rbPrev.level = 0)
        => rbLast.sample = rbPrev.sample
WitC2 == rbLast.op = "pop" /\ rbPrev.op = "push" /\ rbPrev.level = 0 /\ readPos > 1

\* C3: after N-1 successful pushes with no pops the buffer is full, and the
\* next push returns false and changes neither index, nor the level, nor a cell.
ThmC3 ==
    /\ [](pushRun = streamBufferSize - 1 =>
             /\ availableForRead = streamBufferSize - 1
             /\ availableForWrite = 0)
    /\ [][(pushRun = streamBufferSize - 1 /\ rbLast'.op = "push") =>
             /\ ~rbLast'.ok
             /\ readPos' = readPos /\ writePos' = writePos /\ buffer' = buffer
             /\ availableForRead' = availableForRead]_vars
WitC3 == rbLast.op = "push" /\ ~rbLast.ok /\ pushRun = streamBufferSize - 1
            /\ rbLast.sample # buffer[BitAnd(writePos + streamBufferMask, streamBufferMask)]

\* C4: from any reachable state clear() makes availableForRead() = 0 and
\* availableForWrite() = N - 1.
ThmC4 ==
    rbLast.op = "clear" =>
        availableForRead = 0 /\ availableForWrite = streamBufferSize - 1
\* clear() called on a full buffer
WitC4 == rbLast.op = "clear" /\ rbLast.level = streamBufferSize - 1

\* C5: one producer in push and one consumer that pops only after
\* availableForRead() > 0, interleaved read by read and write by write: every
\* pop reads a cell the producer has written, samples come out in push
\* order, and no accepted sample is overwritten, lost or duplicated.
StoredFrom(rp) ==
    [i \in 1 .. Len(inFlight) |-> buffer[BitAnd(rp + i - 1, streamBufferMask)]]
ThmC5 ==
    /\ cons.pc = "advance" => cons.fifoOk
    /\ cons.pc = "read" => inFlight # <<>>
    /\ Len(inFlight) <= streamBufferSize - 1
    /\ inFlight = StoredFrom(IF cons.pc = "advance"
                             THEN BitAnd(readPos + 1, streamBufferMask)
                             ELSE readPos)
\* the consumer has read a sample from a wrapped buffer while the producer
\* is in the middle of a push
WitC5 == cons.pc = "advance" /\ cons.fifoOk /\ prod.pc = "publish"
            /\ writePos < readPos /\ Len(inFlight) > 0

\* C6 as stated: no single operation writes both indices.
OrigC6 == [][~(readPos' # readPos /\ writePos' # writePos)]_vars
\* C6 amended: push writes only writePos and pop writes only readPos; clear
\* is the one operation that writes both indices.
ThmC6 ==
    [][/\ rbLast'.op = "push" => readPos' = readPos
       /\ rbLast'.op = "pop" => writePos' = writePos
       /\ (readPos' # readPos /\ writePos' # writePos) => rbLast'.op = "clear"]_vars
WitC6 == rbLast.op = "clear" /\ rbLast.level > 0 /\ readPos = 0 /\ writePos = 0

(***************************************************************************)
(* generateAdtsHeader (mp4_parser.cpp): the 7-byte ADTS header of a frame  *)
(* of len bytes (header included).  A uint8_t cell keeps the low 8 bits.   *)
(***************************************************************************)
U8(x) == x % 256

\* the descending threshold ladder; freqIdx starts at 4 ("Default 44100")
FreqIdxLowestBucket(sampleRate) ==
    IF sampleRate >= 96000 THEN 0
    ELSE IF sampleRate >= 88200 THEN 1
    ELSE IF sampleRate >= 64000 THEN 2
    ELSE IF sampleRate >= 48000 THEN 3
    ELSE IF sampleRate >= 44100 THEN 4
    ELSE IF sampleRate >= 32000 THEN 5
    ELSE IF sampleRate >= 24000 THEN 6
    ELSE IF sampleRate >= 22050 THEN 7
    ELSE IF sampleRate >= 16000 THEN 8
    ELSE 9
FreqIdx(sampleRate) ==
    IF sampleRate >= 96000 THEN 0
    ELSE IF sampleRate >= 88200 THEN 1
    ELSE IF sampleRate >= 64000 THEN 2
    ELSE IF sampleRate >= 48000 THEN 3
    ELSE IF sampleRate >= 44100 THEN 4
    ELSE IF sampleRate >= 32000 THEN 5
    ELSE IF sampleRate >= 24000 THEN 6
    ELSE IF sampleRate >= 22050 THEN 7
    ELSE IF sampleRate >= 16000 THEN 8
    ELSE IF sampleRate >= 12000 THEN 9
    ELSE 4

\* generateAdtsHeader with a 12-bit length: header[4] = (len >> 3) & 0x7F
generateAdtsHeaderShortLength(len, profile, sampleRate, channels) ==
    [i \in 0 .. 6 |->
        CASE i = 0 -> \hFF
          [] i = 1 -> \hF1
          [] i = 2 -> U8(BitOr(BitOr(Shl(1, 6), Shl(FreqIdx(sampleRate), 2)),
                               BitAnd(Shr(channels, 2), 1)))
          [] i = 3 -> U8(BitOr(Shl(BitAnd(channels, 3), 6), Shr(len, 11)))
          [] i = 4 -> U8(BitAnd(Shr(len, 3), \h7F))
          [] i = 5 -> U8(BitOr(Shl(BitAnd(len, 7), 5), \h1F))
          [] i = 6 -> \hFC]

\* void generateAdtsHeader(uint8_t* header, int len, int profile,
\*                         int sampleRate, int channels)
\* for len >= 0 and channels >= 0; profile is not used by the code
generateAdtsHeader(len, profile, sampleRate, channels) ==
    LET freqIdx == FreqIdx(sampleRate)
    IN [i \in 0 .. 6 |->
          CASE i = 0 -> \hFF
            [] i = 1 -> \hF1
            [] i = 2 -> U8(BitOr(BitOr(Shl(1, 6), Shl(freqIdx, 2)),
                                 BitAnd(Shr(channels, 2), 1)))
            [] i = 3 -> U8(BitOr(Shl(BitAnd(channels, 3), 6), Shr(len, 11)))
            [] i = 4 -> U8(BitAnd(Shr(len, 3), \hFF))
            [] i = 5 -> U8(BitOr(Shl(BitAnd(len, 7), 5), \h1F))
            [] i = 6 -> \hFC]

\* the sampling-frequency index field of a header: bits 5..2 of byte 2
HeaderFreqIdx(header) == BitAnd(Shr(header[2], 2), 15)

\* the inputs the model applies generateAdtsHeader to
Ladder == <<96000, 88200, 64000, 48000, 44100, 32000, 24000, 22050, 16000, 12000>>
AdtsRates ==
    {Ladder[i] + d : i \in 1 .. Len(Ladder), d \in {-1, 0, 1}}
        \cup {0, 1, 8000, 11025, 65535, 192000}
AdtsLens ==
    (7 .. 40) \cup {255, 256, 1031, 2047, 2048, 2049, 4095, 4096, 8190, 8191,
                    8192, 131072 + 7}
AdtsChannels == {1, 2, 6}

\* one call in a behaviour: the function keeps nothing between two calls
GenerateAdtsHeader ==
    /\ adts = AdtsIdle
    /\ \E len \in AdtsLens, sampleRate \in AdtsRates, channels \in AdtsChannels :
        adts' = [len |-> len, sampleRate |-> sampleRate, channels |-> channels,
                 header |-> generateAdtsHeader(len, 2, sampleRate, channels)]

InitAdts ==
    /\ RingInit /\ buffer = [c \in Cells |-> 0]
    /\ prod = ProdIdle /\ cons = ConsIdle /\ inFlight = <<>>
    /\ adts = AdtsIdle
    /\ parser = ParserIdle /\ file = <<>> /\ mpLast = MpIdle
    /\ walk = WalkIdle
    /\ StreamsIdle

NextAdts == GenerateAdtsHeader /\ UNCHANGED <<rbVars, histVars, spscVars, mp4Vars, walk, streamVars>>

SpecAdts == InitAdts /\ [][NextAdts]_vars

\* the index the claim names: the position in the ladder of the highest
\* threshold not above the rate, and 9 for a rate below every threshold
LadderPosition(rate) ==
    IF rate < Ladder[Len(Ladder)] THEN 9
    ELSE (CHOOSE i \in 1 .. Len(Ladder) :
             Ladder[i] <= rate /\ \A j \in 1 .. (i - 1) : Ladder[j] > rate) - 1

Lo16(a) == a % 65536
Hi16(a) == (a \div 65536) % 65536              \* a >> 16
FromHalves(hi, lo) == (IF hi >= 32768 THEN hi - 65536 ELSE hi) * 65536 + lo
Add32(a, b) ==
    IF a >= -1073741824 /\ a < 1073741824 /\ b >= -1073741824 /\ b < 1073741824
    THEN a + b                                  \* no carry out of 32 bits
    ELSE LET lo == Lo16(a) + Lo16(b)
             hi == Hi16(a) + Hi16(b) + (lo \div 65536)
         IN FromHalves(hi % 65536, lo % 65536)
Mul4(a) == Add32(Add32(a, a), Add32(a, a))
ULt(a, b) == IF (a < 0) = (b < 0) THEN a < b ELSE b < 0      \* unsigned a < b
UGe(a, b) == ~ULt(a, b)
UGt(a, b) == ULt(b, a)
ByteOf(a, i) ==                                 \* byte i of a, 0 the highest
    CASE i = 0 -> Hi16(a) \div 256
      [] i = 1 -> Hi16(a) % 256
      [] i = 2 -> Lo16(a) \div 256
      [] i = 3 -> Lo16(a) % 256

(***************************************************************************)
(* The files the parser is given, built box by box.  A file is identified  *)
(* by its description; FileBytes gives its bytes.                          *)
(***************************************************************************)
FourCC_moov == \h6D6F6F76
FourCC_mdat == \h6D646174
FourCC_trak == \h7472616B
FourCC_mdia == \h6D646961
FourCC_hdlr == \h68646C72
FourCC_minf == \h6D696E66
FourCC_stbl == \h7374626C
FourCC_stsz == \h7374737A
FourCC_stco == \h7374636F
FourCC_stsc == \h73747363
FourCC_stsd == \h73747364
FourCC_mp4a == \h6D703461
FourCC_soun == \h736F756E
FourCC_vide == \h76696465
FourCC_ftyp == \h66747970
FourCC_avc1 == \h61766331

B32(n) == <<ByteOf(n, 0), ByteOf(n, 1), ByteOf(n, 2), ByteOf(n, 3)>>
Zeros(n) == [i \in 1 .. n |-> 0]
Box(type, payload) == B32(Len(payload) + 8) \o B32(type) \o payload

RECURSIVE Concat(_)
Concat(seqs) == IF seqs = <<>> THEN <<>> ELSE Head(seqs) \o Concat(Tail(seqs))

MaxSamples == 6        \* the largest sample count of a built file
MaxPerChunk == 2       \* the largest samples-per-chunk of a built file
SharedSize == 10       \* the shared frame size of the built files
FtypBox == Box(FourCC_ftyp, Zeros(8))
MdatStart == Len(FtypBox) + 8                  \* first payload byte of mdat

ChunkCount(T, K) == IF T = 0 THEN 1 ELSE (T + K - 1) \div K
\* frame sizes: S for every frame, or (S = 0) a table of per-sample sizes
FrameSizeOf(cfg, i) == IF cfg.S # 0 THEN cfg.S ELSE 8 + (i % 3)
RECURSIVE FrameStart(_, _)
FrameStart(cfg, i) ==
    IF i = 0 THEN MdatStart ELSE FrameStart(cfg, i - 1) + FrameSizeOf(cfg, i - 1)
ChunkGap == 4          \* unused bytes between two chunks of a built file
\* the samples per chunk of chunk number c (from 1) under the runs
\* <<first chunk, samples per chunk>> of a sample-to-chunk table
RunValue(runs, c) ==
    runs[CHOOSE k \in 1 .. Len(runs) :
            /\ runs[k][1] <= c
            /\ \A j \in 1 .. Len(runs) : runs[j][1] <= c => j <= k][2]
\* the samples of the first c chunks
RECURSIVE SamplesBefore(_, _)
SamplesBefore(cfg, c) ==
    IF c = 0 THEN 0 ELSE SamplesBefore(cfg, c - 1) + RunValue(cfg.runs, c)
\* the chunk offsets O0, O1, ... of the stco table (c counts from 0)
ChunkOffset(cfg, c) == FrameStart(cfg, SamplesBefore(cfg, c)) + c * ChunkGap
MdatLen(cfg) == ChunkOffset(cfg, cfg.chunks) - MdatStart

StsdBox(t) ==
    Box(FourCC_stsd,
        B32(0) \o B32(1) \o B32(36)
          \o B32(IF t.mp4a THEN FourCC_mp4a ELSE FourCC_avc1)
          \o <<0, 0, 0, 0, 0, 0, 0, 1>> \o Zeros(8)
          \o <<0, t.channels, 0, 16>> \o Zeros(4)
          \o <<t.rate \div 256, t.rate % 256, 0, 0>>)
StszBox(cfg) ==
    Box(FourCC_stsz,
        B32(0) \o B32(cfg.stszSize) \o B32(cfg.T)
          \o (IF cfg.S # 0 THEN <<>>
              ELSE Concat([i \in 1 .. cfg.T |-> B32(FrameSizeOf(cfg, i - 1))])))
StcoBox(cfg) ==
    Box(FourCC_stco,
        B32(0) \o B32(cfg.chunks)
          \o Concat([c \in 1 .. cfg.chunks |-> B32(ChunkOffset(cfg, c - 1))]))
StscBox(cfg) ==
    Box(FourCC_stsc,
        B32(0) \o B32(Len(cfg.runs))
          \o Concat([r \in 1 .. Len(cfg.runs) |->
                        B32(cfg.runs[r][1]) \o B32(cfg.runs[r][2]) \o B32(1)]))
HdlrBox(t) ==
    Box(FourCC_hdlr,
        B32(0) \o B32(0) \o B32(IF t.audio THEN FourCC_soun ELSE FourCC_vide)
          \o Zeros(12))
StblBox(cfg, t) ==
    Box(FourCC_stbl,
        StsdBox(t)
          \o (IF t.stsz THEN StszBox(cfg) ELSE <<>>)
          \o (IF t.stsc THEN StscBox(cfg) ELSE <<>>)
          \o (IF t.stco THEN StcoBox(cfg) ELSE <<>>))
TrakBox(cfg, t) ==
    Box(FourCC_trak,
        Box(FourCC_mdia, HdlrBox(t) \o Box(FourCC_minf, StblBox(cfg, t))))
MoovBox(cfg) ==
    Box(FourCC_moov,
        Concat([i \in 1 .. Len(cfg.tracks) |-> TrakBox(cfg, cfg.tracks[i])]))
BuildFile(cfg) ==
    FtypBox
      \o Box(FourCC_mdat, Zeros(MdatLen(cfg)))
      \o (IF cfg.moov THEN MoovBox(cfg) ELSE <<>>)

Track(audio, stsz, stco, stsc) ==
    [audio |-> audio, stsz |-> stsz, stco |-> stco, stsc |-> stsc,
     mp4a |-> audio, channels |-> 2, rate |-> 44100]
AudioTrack == Track(TRUE, TRUE, TRUE, TRUE)
VideoTrack == Track(FALSE, TRUE, TRUE, TRUE)
Mp4File(tracks, T, K, S) ==
    [kind |-> "mp4", moov |-> TRUE, tracks |-> tracks, T |-> T, K |-> K, S |-> S,
     chunks |-> ChunkCount(T, K), stszSize |-> S, runs |-> <<<<1, K>>>>]

\* a path no file system can open
MissingFile ==
    [kind |-> "missing", moov |-> FALSE, tracks |-> <<>>, T |-> 0, K |-> 1, S |-> 0,
     chunks |-> 1, stszSize |-> 0, runs |-> <<<<1, 1>>>>]

\* one audio track with all three tables: T samples of shared size S in
\* chunks of K samples
PlainFiles ==
    {Mp4File(<<AudioTrack>>, T, K, SharedSize) :
        T \in 0 .. MaxSamples, K \in 1 .. MaxPerChunk}
\* one track, audio or not, with any subset of the three tables
OneTrackFiles ==
    {Mp4File(<<Track(a, z, c, s)>>, 2, 1, SharedSize) :
        a \in BOOLEAN, z \in BOOLEAN, c \in BOOLEAN, s \in BOOLEAN}
\* one audio track whose sample-to-chunk table has several runs: T samples
\* in the given number of chunks
SeveralRuns(T, runs, chunks) ==
    [Mp4File(<<AudioTrack>>, T, runs[1][2], SharedSize)
        EXCEPT !.runs = runs, !.chunks = chunks]
SeveralRunsFiles ==
    { SeveralRuns(5, <<<<1, 2>>, <<3, 1>>>>, 3),
      SeveralRuns(6, <<<<1, 1>>, <<3, 2>>>>, 4),
      SeveralRuns(6, <<<<1, 1>>, <<2, 2>>, <<4, 1>>>>, 4) }
OtherFiles ==
    { Mp4File(<<VideoTrack, AudioTrack>>, 2, 1, SharedSize),
      Mp4File(<<AudioTrack, VideoTrack>>, 2, 1, SharedSize),
      Mp4File(<<Track(FALSE, TRUE, FALSE, FALSE), Track(FALSE, FALSE, TRUE, TRUE)>>,
              2, 1, SharedSize),
      Mp4File(<<[AudioTrack EXCEPT !.channels = 1, !.rate = 22050]>>, 3, 2, SharedSize),
      Mp4File(<<[AudioTrack EXCEPT !.mp4a = FALSE]>>, 2, 2, SharedSize),
      Mp4File(<<AudioTrack>>, 4, 2, 0),
      \* a sample size table that declares frames of 2^32 - 4 bytes
      [Mp4File(<<AudioTrack>>, 2, 1, SharedSize) EXCEPT !.stszSize = -4],
      [Mp4File(<<>>, 2, 1, SharedSize) EXCEPT !.moov = FALSE],
      MissingFile }
FileConfigs == PlainFiles \cup OneTrackFiles \cup SeveralRunsFiles \cup OtherFiles

\* a file: its description and its bytes
FileOf(cfg) ==
    [id |-> cfg, bytes |-> IF cfg.kind = "missing" THEN <<>> ELSE BuildFile(cfg)]
Files == {FileOf(cfg) : cfg \in FileConfigs}

(***************************************************************************)
(* MP4Parser (mp4_parser.cpp).  A machine m is the parser's fields m.p,    *)
(* its file handle m.f (open or not, the file, the position), the local    *)
(* isAudio of parseTrak, m.g, the word an uninitialised read buffer holds, *)
(* and m.short, whether a read has left part of its buffer unfilled.       *)
(***************************************************************************)
TopAtomLimit == 1000
MoovAtomLimit == 500
TrakAtomLimit == 500
MdiaAtomLimit == 100
MinfAtomLimit == 100
StblAtomLimit == 100

fileSize(m) == IF m.f.open THEN Len(m.f.bytes) ELSE 0

\* uint32_t MP4Parser::getPos()
getPos(m) == m.f.pos

\* void MP4Parser::seek(uint32_t pos): SdFat refuses a position past the end
\* of the file and LittleFS a negative one; a refused seek leaves the position
seek(m, pos) ==
    IF ~m.f.open THEN m
    ELSE IF m.p.usingFlash
         THEN (IF pos < 0 THEN m ELSE [m EXCEPT !.f.pos = pos])
         ELSE (IF UGt(pos, fileSize(m)) THEN m ELSE [m EXCEPT !.f.pos = pos])

\* uint32_t MP4Parser::readUI32BE(): f.read(buf, 4) fills as many bytes as the
\* file has left; the rest of buf stays uninitialised
readUI32BE(m) ==
    LET n == fileSize(m)
        pos == m.f.pos
        got == IF pos < 0 \/ pos >= n THEN 0
               ELSE IF n - pos < 4 THEN n - pos ELSE 4
        byte(i) == IF i < got THEN m.f.bytes[pos + i + 1] ELSE ByteOf(m.g, i)
    IN [m |-> [m EXCEPT !.f.pos = Add32(pos, got), !.short = m.short \/ got < 4],
        v |-> FromHalves(byte(0) * 256 + byte(1), byte(2) * 256 + byte(3))]

\* LET x == e IN body, with e evaluated once: The({body : x \in {e}})
The(S) == CHOOSE x \in S : TRUE

\* seek(getPos() + n)
skip(m, n) == seek(m, Add32(getPos(m), n))

\* uint32_t size = readUI32BE(); uint32_t type = readUI32BE();
ReadAtomHeader(m) ==
    The({ The({ [m |-> type.m, size |-> size.v, type |-> type.v]
                : type \in {readUI32BE(size.m)} })
          : size \in {readUI32BE(m)} })

\* bool MP4Parser::parseStsd(uint32_t atomSize)
parseStsd(m, atomSize) ==
    The({ IF entry.type = FourCC_mp4a
          THEN The({ The({ [rate.m EXCEPT !.p.sampleRate = Hi16(rate.v)]
                           : rate \in {readUI32BE(skip(
                                 [chans.m EXCEPT !.p.channels = U8(Hi16(chans.v))], 4))} })
                     : chans \in {readUI32BE(skip(skip(entry.m, 8), 8))} })
          ELSE entry.m
          : entry \in {ReadAtomHeader(skip(m, 8))} })

\* parseTrak: the loop over the children of stbl
RECURSIVE StblLoop(_, _, _)
StblLoop(m, stblEnd, c4) ==
    IF ~(ULt(getPos(m), stblEnd) /\ c4 < StblAtomLimit) THEN m
    ELSE The({ IF ULt(h.size, 8) THEN h.m
               ELSE LET nextStblChild == Add32(Add32(getPos(h.m), h.size), -8)
                        here == Add32(getPos(h.m), -8)
                    IN StblLoop(
                         seek(IF h.type = FourCC_stsz THEN [h.m EXCEPT !.p.stszOffset = here]
                              ELSE IF h.type = FourCC_stco THEN [h.m EXCEPT !.p.stcoOffset = here]
                              ELSE IF h.type = FourCC_stsc THEN [h.m EXCEPT !.p.stscOffset = here]
                              ELSE IF h.type = FourCC_stsd THEN parseStsd(h.m, Add32(h.size, -8))
                              ELSE h.m,
                              nextStblChild),
                         stblEnd, c4 + 1)
               : h \in {ReadAtomHeader(m)} })

\* parseTrak: the loop over the children of minf
RECURSIVE MinfLoop(_, _, _)
MinfLoop(m, minfEnd, c3) ==
    IF ~(ULt(getPos(m), minfEnd) /\ c3 < MinfAtomLimit) THEN m
    ELSE The({ IF ULt(h.size, 8) THEN h.m
               ELSE LET nextMinfChild == Add32(Add32(getPos(h.m), h.size), -8)
                    IN MinfLoop(
                         seek(IF h.type = FourCC_stbl
                              THEN StblLoop(h.m, Add32(Add32(getPos(h.m), h.size), -8), 0)
                              ELSE h.m,
                              nextMinfChild),
                         minfEnd, c3 + 1)
               : h \in {ReadAtomHeader(m)} })

\* parseTrak: the hdlr branch, "Check handler type"
CheckHandler(subtype) ==
    IF subtype.v = FourCC_soun THEN [subtype.m EXCEPT !.isAudio = TRUE] ELSE subtype.m

\* parseTrak: the loop over the children of mdia
RECURSIVE MdiaLoop(_, _, _)
MdiaLoop(m, mdiaEnd, c2) ==
    IF ~(ULt(getPos(m), mdiaEnd) /\ c2 < MdiaAtomLimit) THEN m
    ELSE The({ IF ULt(h.size, 8) THEN h.m
               ELSE LET nextMdiaChild == Add32(Add32(getPos(h.m), h.size), -8)
                    IN MdiaLoop(
                         seek(IF h.type = FourCC_hdlr
                              THEN CheckHandler(readUI32BE(skip(h.m, 8)))
                              ELSE IF h.type = FourCC_minf
                              THEN MinfLoop(h.m, Add32(Add32(getPos(h.m), h.size), -8), 0)
                              ELSE h.m,
                              nextMdiaChild),
                         mdiaEnd, c2 + 1)
               : h \in {ReadAtomHeader(m)} })

\* parseTrak: the loop over the children of trak
RECURSIVE TrakLoop(_, _, _)
TrakLoop(m, endPos, count) ==
    IF ~(ULt(getPos(m), endPos) /\ count < TrakAtomLimit) THEN m
    ELSE The({ IF ULt(h.size, 8) THEN h.m
               ELSE LET nextAtomPos == Add32(Add32(getPos(h.m), h.size), -8)
                    IN TrakLoop(
                         seek(IF h.type = FourCC_mdia
                              THEN MdiaLoop(h.m, Add32(Add32(getPos(h.m), h.size), -8), 0)
                              ELSE h.m,
                              nextAtomPos),
                         endPos, count + 1)
               : h \in {ReadAtomHeader(m)} })

\* the "Final Check" of parseTrak
TrakAccepted(m) ==
    m.isAudio /\ m.p.stszOffset # 0 /\ m.p.stcoOffset # 0 /\ m.p.stscOffset # 0

\* bool MP4Parser::parseTrak(uint32_t atomSize)
parseTrak(m, atomSize) ==
    The({ [m |-> m2, ret |-> TrakAccepted(m2)]
          : m2 \in {TrakLoop([m EXCEPT !.isAudio = FALSE, !.p.stszOffset = 0,
                                       !.p.stcoOffset = 0, !.p.stscOffset = 0],
                             Add32(getPos(m), atomSize), 0)} })

\* parseMoov: the loop over the children of moov; it returns at the first
\* trak that parseTrak accepts
RECURSIVE MoovLoop(_, _, _)
MoovLoop(m, endPos, count) ==
    IF ~(ULt(getPos(m), endPos) /\ count < MoovAtomLimit) THEN [m |-> m, ret |-> FALSE]
    ELSE The({ IF ULt(h.size, 8) THEN [m |-> h.m, ret |-> FALSE]
               ELSE LET nextAtomPos == Add32(Add32(getPos(h.m), h.size), -8)
                    IN The({ IF trak.ret THEN [m |-> trak.m, ret |-> TRUE]
                             ELSE MoovLoop(seek(trak.m, nextAtomPos), endPos, count + 1)
                             : trak \in {IF h.type = FourCC_trak
                                         THEN parseTrak(h.m, Add32(h.size, -8))
                                         ELSE [m |-> h.m, ret |-> FALSE]} })
               : h \in {ReadAtomHeader(m)} })

\* bool MP4Parser::parseMoov(uint32_t atomSize)
parseMoov(m, atomSize) == MoovLoop(m, Add32(getPos(m), atomSize), 0)

\* open: "Extended size", atomSize = low
ExtendedSize(h, pos) ==
    IF h.size = 1
    THEN The({ [h EXCEPT !.m = x.m, !.size = x.type]        \* x.size is high, x.type is low
               : x \in {ReadAtomHeader(seek(h.m, Add32(pos, 8)))} })
    ELSE h

\* open: the scan of the top-level atoms
RECURSIVE TopLoop(_, _, _, _)
TopLoop(m, pos, atomCount, moovFound) ==
    IF ~(ULt(pos, fileSize(m)) /\ atomCount < TopAtomLimit)
    THEN [m |-> m, moovFound |-> moovFound]
    ELSE The({ IF h0.size = 0 THEN [m |-> h0.m, moovFound |-> moovFound]
               ELSE The({ IF ULt(h.size, 8) THEN [m |-> h.m, moovFound |-> moovFound]
                          ELSE The({ IF UGt(Add32(pos, h.size), fileSize(m2))
                                     THEN [m |-> m2, moovFound |-> moovFound \/ h.type = FourCC_moov]
                                     ELSE TopLoop(m2, Add32(pos, h.size), atomCount + 1,
                                                  moovFound \/ h.type = FourCC_moov)
                                     : m2 \in {IF h.type = FourCC_moov
                                               THEN parseMoov(h.m, Add32(h.size, -8)).m
                                               ELSE IF h.type = FourCC_mdat
                                               THEN [h.m EXCEPT !.p.mdatOffset = Add32(pos, 8)]
                                               ELSE h.m} })
                          : h \in {ExtendedSize(h0, pos)} })
               : h0 \in {ReadAtomHeader(seek(m, pos))} })

\* the test that decides open's result
OpenAcceptsWithoutStco(moovFound, p) ==
    moovFound /\ p.stszOffset # 0 /\ p.stscOffset # 0
OpenAccepts(moovFound, p) ==
    moovFound /\ p.stszOffset # 0 /\ p.stcoOffset # 0 /\ p.stscOffset # 0

\* open: "Initialize Reading State"
InitReadingState(m) ==
    The({ The({ [offset.m EXCEPT !.p.currentOffset = offset.v]
                : offset \in {readUI32BE(seek(
                      [run.m EXCEPT !.p.currentChunk = 1,
                                    !.p.samplesInCurrentChunk = run.type],
                      Add32(m.p.stcoOffset, 16)))} })
          \* run.size is firstChunk, run.type is samplesInCurrentChunk
          : run \in {ReadAtomHeader(seek(seek(m, Add32(m.p.stscOffset, 12)),
                                         Add32(m.p.stscOffset, 16)))} })

\* bool MP4Parser::open(const char* filename, bool isFlash)
open(m, fl, isFlash) ==
    IF fl.id.kind = "missing"
    THEN [m |-> [m EXCEPT !.p.usingFlash = isFlash,
                          !.f = [open |-> FALSE, id |-> fl.id, bytes |-> fl.bytes,
                                 pos |-> 0]],
          ret |-> FALSE]
    ELSE The({ IF OpenAccepts(scan.moovFound, scan.m.p)
               THEN [m |-> InitReadingState(scan.m), ret |-> TRUE]
               ELSE [m |-> scan.m, ret |-> FALSE]
               : scan \in {TopLoop([m EXCEPT !.p.usingFlash = isFlash,
                                       !.f = [open |-> TRUE, id |-> fl.id,
                                              bytes |-> fl.bytes, pos |-> 0],
                                       !.p.stszOffset = 0, !.p.stcoOffset = 0,
                                       !.p.stscOffset = 0, !.p.mdatOffset = 0,
                                       !.p.currentSample = 0, !.p.currentChunk = 1,
                                       !.p.samplesReadInChunk = 0],
                                    0, 0, FALSE)} })

\* readNextFrame: "Find entry for currentChunk", the scan of the stsc runs
StscScanFirstRun(m, i, entryCount) ==
    IF ~ULt(i, entryCount) THEN m
    ELSE The({ [readUI32BE(samplesPer.m).m
                  EXCEPT !.p.samplesInCurrentChunk = samplesPer.v]
               : samplesPer \in {readUI32BE(readUI32BE(m).m)} })
RECURSIVE StscScan(_, _, _)
StscScan(m, i, entryCount) ==
    IF ~ULt(i, entryCount) THEN m
    ELSE LET firstChunk == readUI32BE(m)
             samplesPer == readUI32BE(firstChunk.m)
             id == readUI32BE(samplesPer.m)
         IN IF UGt(firstChunk.v, m.p.currentChunk) THEN id.m
            ELSE StscScan([id.m EXCEPT !.p.samplesInCurrentChunk = samplesPer.v],
                          i + 1, entryCount)

\* readNextFrame: if (samplesReadInChunk >= samplesInCurrentChunk)
ChunkDoneWhenPast(p) == UGt(p.samplesReadInChunk, p.samplesInCurrentChunk)
ChunkDone(p) == UGe(p.samplesReadInChunk, p.samplesInCurrentChunk)

\* readNextFrame: the "Next Chunk" block
NextChunk(m) ==
    The({ The({ StscScan(entryCount.m, 0, entryCount.v)
                : entryCount \in {readUI32BE(seek(
                      [offset.m EXCEPT !.p.currentOffset = offset.v],
                      Add32(m.p.stscOffset, 12)))} })
          : offset \in {readUI32BE(seek(
                [m EXCEPT !.p.currentChunk = Add32(m.p.currentChunk, 1),
                          !.p.samplesReadInChunk = 0],
                Add32(Add32(m.p.stcoOffset, 16),
                      Mul4(Add32(Add32(m.p.currentChunk, 1), -1)))))} })

\* void MP4Parser::read(uint8_t* buf, size_t len): the position moves by the
\* bytes the file has left
BytesRead(m, len) ==
    LET n == fileSize(m)
        pos == m.f.pos
        left == IF pos < 0 \/ pos >= n THEN 0 ELSE n - pos
    IN IF ULt(len, left) THEN len ELSE left
read(m, len) == [m EXCEPT !.f.pos = Add32(m.f.pos, BytesRead(m, len))]

\* what a readNextFrame that returns 0 reports: no payload position, nothing
\* written to the caller's buffer; sized tells whether the call got as far as
\* the size of the next frame
Nothing(m, sized, frameSize) ==
    [m |-> m, ret |-> 0, at |-> 0, header |-> [i \in 0 .. 6 |-> 0], wrote |-> 0,
     sized |-> sized, frameSize |-> frameSize]

NoHeader == [i \in 0 .. 6 |-> 0]

\* readNextFrame: the first test, on a parser that found no stsz table
NotOpened(p) == p.stszOffset = 0

\* readNextFrame: if (currentSample >= count) return 0; // EOF
EndOfTrackWhenPast(p, count) == UGt(p.currentSample, count)
EndOfTrack(p, count) == UGe(p.currentSample, count)

\* readNextFrame: "1. Get Sample Size": defaultSize (stsz.size), count
\* (stsz.type) and the frame size
SampleSize(m) ==
    The({ IF EndOfTrack(stsz.m.p, stsz.type) \/ stsz.size # 0
          THEN [m |-> stsz.m, count |-> stsz.type, frameSize |-> stsz.size]
          ELSE The({ [m |-> entry.m, count |-> stsz.type, frameSize |-> entry.v]
                     : entry \in {readUI32BE(seek(stsz.m,
                           Add32(Add32(m.p.stszOffset, 20), Mul4(m.p.currentSample))))} })
          : stsz \in {ReadAtomHeader(seek(m, Add32(m.p.stszOffset, 12)))} })

\* readNextFrame: "3. Read Frame"; at is the file position of the payload
ReadFrame(m, frameSize) ==
    The({ [m |-> [read(m4, frameSize) EXCEPT
                     !.p.currentOffset = Add32(m.p.currentOffset, frameSize),
                     !.p.currentSample = Add32(m.p.currentSample, 1),
                     !.p.samplesReadInChunk = Add32(m.p.samplesReadInChunk, 1)],
           ret |-> Add32(frameSize, 7),
           at |-> getPos(m4),
           header |-> generateAdtsHeader(Add32(frameSize, 7), 2,
                                         m.p.sampleRate, m.p.channels),
           \* bytes of the caller's buffer written: the header and the payload
           wrote |-> 7 + BytesRead(m4, frameSize),
           sized |-> TRUE, frameSize |-> frameSize]
          : m4 \in {seek(m, m.p.currentOffset)} })

\* size_t MP4Parser::readNextFrame(uint8_t* buffer, size_t bufferSize)
readNextFrame(m, bufferSize) ==
    IF NotOpened(m.p) THEN Nothing(m, FALSE, 0)
    ELSE The({ IF EndOfTrack(s.m.p, s.count)
               THEN Nothing(s.m, FALSE, 0)
               ELSE IF UGt(Add32(s.frameSize, 7), bufferSize)
               THEN Nothing(s.m, TRUE, s.frameSize)
               ELSE ReadFrame(IF ChunkDone(s.m.p) THEN NextChunk(s.m) ELSE s.m,
                              s.frameSize)
               : s \in {SampleSize(m)} })

(***************************************************************************)
(* SpecMp4 and SpecMp4Reuse: one MP4Parser, opened on one of the files    *)
(* and read frame by frame.                                                *)
(***************************************************************************)
MaxOpens == 2                    \* calls of open in one behaviour of SpecMp4Reuse
UninitWords == {0, 5}            \* what a field no constructor sets may hold
GarbageWords == {0, 10, -1}      \* what an unfilled read buffer may hold
BufferSizes == {16, 1024}        \* the bufferSize arguments of readNextFrame

\* MP4Parser::MP4Parser(): four cursor fields are left uninitialised
Constructed(chunk, inChunk, readInChunk, offset) ==
    [usingFlash |-> FALSE, stszOffset |-> 0, stcoOffset |-> 0, stscOffset |-> 0,
     mdatOffset |-> 0, sampleRate |-> 44100, channels |-> 2,
     currentSample |-> 0, totalSamples |-> 0,
     currentChunk |-> chunk, samplesInCurrentChunk |-> inChunk,
     samplesReadInChunk |-> readInChunk, currentOffset |-> offset]

NoCall == [op |-> "none", ok |-> FALSE, ret |-> 0, bufferSize |-> 0, sample |-> 0,
           at |-> 0, header |-> NoHeader, opens |-> 0, openOk |-> FALSE,
           wrote |-> 0, sized |-> FALSE, frameSize |-> 0]

Machine(g) == [p |-> parser, f |-> file, g |-> g, isAudio |-> FALSE, short |-> FALSE]

\* the words the unfilled read buffers of a call may hold: one suffices for
\* a call none of whose reads runs short
Garbage(short) == IF short THEN GarbageWords ELSE {0}
MaxFrames == MaxSamples + 2      \* the model stops reading at this sample index

Open(fl, isFlash) ==
    \E r0 \in {open(Machine(0), fl, isFlash)} :
       \E g \in Garbage(r0.m.short) :
          \E r \in {IF g = 0 THEN r0 ELSE open(Machine(g), fl, isFlash)} :
             /\ parser' = r.m.p
             /\ file' = r.m.f
             /\ mpLast' = [NoCall EXCEPT !.op = "open", !.ok = r.ret,
                                         !.opens = mpLast.opens + 1, !.openOk = r.ret]

ReadNextFrame(bufferSize) ==
    /\ ULt(parser.currentSample, MaxFrames)
    /\ \E r0 \in {readNextFrame(Machine(0), bufferSize)} :
          \E g \in Garbage(r0.m.short) :
             \E r \in {IF g = 0 THEN r0 ELSE readNextFrame(Machine(g), bufferSize)} :
                /\ parser' = r.m.p
                /\ file' = r.m.f
                /\ mpLast' = [mpLast EXCEPT !.op = "read", !.ok = r.ret # 0,
                                            !.ret = r.ret, !.bufferSize = bufferSize,
                                            !.sample = parser.currentSample,
                                            !.at = r.at, !.header = r.header,
                                            !.wrote = r.wrote, !.sized = r.sized,
                                            !.frameSize = r.frameSize]

InitMp4 ==
    /\ RingInit /\ buffer = [c \in Cells |-> 0]
    /\ prod = ProdIdle /\ cons = ConsIdle /\ inFlight = <<>>
    /\ adts = AdtsIdle
    /\ \E a \in UninitWords, b \in UninitWords, c \in UninitWords, d \in UninitWords :
          parser = Constructed(a, b, c, d)
    /\ file = [open |-> FALSE, id |-> MissingFile, bytes |-> <<>>, pos |-> 0]
    /\ mpLast = NoCall
    /\ walk = WalkIdle
    /\ StreamsIdle

\* SpecMp4: a parser opened once, on any of the files
NextMp4 ==
    \/ \E fl \in Files, isFlash \in BOOLEAN :
          /\ mpLast.opens = 0
          /\ Open(fl, isFlash)
          /\ UNCHANGED <<rbVars, histVars, spscVars, adts, walk, streamVars>>
    \/ \E bufferSize \in BufferSizes :
          ReadNextFrame(bufferSize) /\ UNCHANGED <<rbVars, histVars, spscVars, adts, walk, streamVars>>

SpecMp4 == InitMp4 /\ [][NextMp4]_vars

\* SpecMp4Reuse: a parser opened up to MaxOpens times, each time on one of
\* a few files, with any number of frames read in between
ReuseConfigs ==
    { Mp4File(<<AudioTrack>>, 2, 1, SharedSize),
      Mp4File(<<[AudioTrack EXCEPT !.channels = 1, !.rate = 22050]>>, 3, 2, SharedSize),
      Mp4File(<<[AudioTrack EXCEPT !.mp4a = FALSE]>>, 2, 2, SharedSize),
      Mp4File(<<Track(TRUE, TRUE, FALSE, TRUE)>>, 2, 1, SharedSize),
      Mp4File(<<Track(FALSE, TRUE, TRUE, TRUE)>>, 2, 1, SharedSize),
      MissingFile }
ReuseFiles == {FileOf(cfg) : cfg \in ReuseConfigs}

NextMp4Reuse ==
    \/ \E fl \in ReuseFiles, isFlash \in BOOLEAN :
          /\ mpLast.opens < MaxOpens
          /\ Open(fl, isFlash)
          /\ UNCHANGED <<rbVars, histVars, spscVars, adts, walk, streamVars>>
    \/ \E bufferSize \in BufferSizes :
          ReadNextFrame(bufferSize) /\ UNCHANGED <<rbVars, histVars, spscVars, adts, walk, streamVars>>

SpecMp4Reuse == InitMp4 /\ [][NextMp4Reuse]_vars

(***************************************************************************)
(* Claims about MP4Parser::open and MP4Parser::readNextFrame.              *)
(***************************************************************************)
\* C7: for a file with one audio track, shared sample size S, sample count
\* T, chunk offsets O0, O1, ... and K samples per chunk, open succeeds and
\* readNextFrame (given room for S + 7 bytes) returns S + 7 for the samples
\* 0 .. T-1, frame i read from O_(i div K) + (i mod K) * S, and then 0.
ThmC7 ==
    file.id \in PlainFiles =>
        LET cfg == file.id
            i == mpLast.sample
        IN /\ mpLast.op = "open" => mpLast.ok
           /\ parser.currentSample <= cfg.T
           /\ (mpLast.op = "read" /\ mpLast.bufferSize >= cfg.S + 7) =>
                 IF i < cfg.T
                 THEN /\ mpLast.ret = cfg.S + 7
                      /\ mpLast.at = ChunkOffset(cfg, i \div cfg.K) + (i % cfg.K) * cfg.S
                      /\ parser.currentSample = i + 1
                 ELSE mpLast.ret = 0
\* the scenario of the claim: 3 chunks of 2 samples, S = 10; the sixth call
\* has returned 17 bytes read from the second frame of the third chunk
WitC7 ==
    /\ file.id = Mp4File(<<AudioTrack>>, 6, 2, 10)
    /\ mpLast.op = "read" /\ mpLast.sample = 5 /\ mpLast.ret = 17
    /\ mpLast.at = ChunkOffset(file.id, 2) + 10
    /\ parser.currentChunk = 3

\* a file has a track open may accept: audio-typed, with all three tables
HasAudioTrackWithTables(cfg) ==
    /\ cfg.kind = "mp4" /\ cfg.moov
    /\ \E k \in 1 .. Len(cfg.tracks) :
          LET t == cfg.tracks[k] IN t.audio /\ t.stsz /\ t.stco /\ t.stsc

\* C9: open returns false for every file in which no track is audio-typed
\* with all three index tables.
OrigC9 == (mpLast.op = "open" /\ ~HasAudioTrackWithTables(file.id)) => ~mpLast.ok

\* C10: after an open that returned false, every readNextFrame returns 0.
OrigC10 == (mpLast.op = "read" /\ mpLast.opens > 0 /\ ~mpLast.openOk) => mpLast.ret = 0

\* where the moov box of a built file starts
MoovStart(cfg) == MdatStart + MdatLen(cfg)
\* some track of the file holds the table
HasTable(cfg, table) == \E k \in 1 .. Len(cfg.tracks) : cfg.tracks[k][table]

\* C11: open returns true only if the file has a top-level moov box and the
\* stsz, stco and stsc tables were all located inside it; a file that lacks
\* the moov box or any one of the three tables makes open return false.
ThmC11 ==
    (mpLast.op = "open" /\ mpLast.ok) =>
        /\ file.id.kind = "mp4" /\ file.id.moov
        /\ HasTable(file.id, "stsz") /\ HasTable(file.id, "stco")
        /\ HasTable(file.id, "stsc")
        /\ \A off \in {parser.stszOffset, parser.stcoOffset, parser.stscOffset} :
              MoovStart(file.id) < off /\ off < Len(file.bytes)
\* open has refused a file whose moov holds two of the three tables, spread
\* over two tracks together with the third
WitC11 ==
    /\ mpLast.op = "open" /\ ~mpLast.ok
    /\ Len(file.id.tracks) = 2
    /\ HasTable(file.id, "stsz") /\ HasTable(file.id, "stco") /\ HasTable(file.id, "stsc")

\* frameSize + 7 > bufferSize over the unsigned values (a negative model
\* integer stands for a value of 2^31 or more)
ExceedsBuffer(frameSize, bufferSize) == frameSize < 0 \/ frameSize + 7 > bufferSize

\* C12: when the next frame's size plus the 7 header bytes exceeds
\* bufferSize, readNextFrame returns 0 and writes nothing to the buffer.
OrigC12 ==
    (mpLast.op = "read" /\ mpLast.sized
        /\ ExceedsBuffer(mpLast.frameSize, mpLast.bufferSize))
    => (mpLast.ret = 0 /\ mpLast.wrote = 0)

\* C13: on an opened file the sample index never passes the sample count T
\* of the stsz table; a readNextFrame called with the index at T returns 0
\* and changes no field of the parser (so every later call does the same),
\* and a call with the index below T and room for the frame returns a frame.
ThmC13 ==
    /\ [](mpLast.openOk => parser.currentSample <= file.id.T)
    /\ [][(mpLast'.op = "read" /\ mpLast.openOk) =>
            IF parser.currentSample = file.id.T
            THEN mpLast'.ret = 0 /\ mpLast'.wrote = 0 /\ parser' = parser
            ELSE (mpLast'.sized /\ ~ExceedsBuffer(mpLast'.frameSize, mpLast'.bufferSize))
                    => /\ mpLast'.ret # 0
                       /\ parser'.currentSample = parser.currentSample + 1]_vars
\* a call at the end of a track of several chunks with per-sample sizes
WitC13 ==
    /\ mpLast.op = "read" /\ mpLast.openOk /\ mpLast.ret = 0
    /\ mpLast.sample = file.id.T /\ file.id.T > 2 /\ file.id.S = 0
    /\ mpLast.bufferSize > 16


\* C14: when a call of readNextFrame that delivers a frame finds the chunk
\* used up, the chunk number grows by one, the frame is read at the chunk
\* offset entry of the new chunk and is the first sample counted in it, and
\* the samples per chunk are those of the last run of the sample-to-chunk
\* table whose first chunk is not beyond the new chunk number.
ThmC14 ==
    [][(mpLast'.op = "read" /\ mpLast.openOk /\ mpLast'.ret # 0
          /\ ChunkDone(parser)) =>
            /\ parser'.currentChunk = parser.currentChunk + 1
            /\ mpLast'.at = ChunkOffset(file.id, parser'.currentChunk - 1)
            /\ parser'.samplesReadInChunk = 1
            /\ parser'.samplesInCurrentChunk =
                  RunValue(file.id.runs, parser'.currentChunk)]_vars
\* the crossing into the fourth chunk of a table with three runs, where the
\* run in force changes from the second to the third
WitC14 ==
    /\ file.id = SeveralRuns(6, <<<<1, 1>>, <<2, 2>>, <<4, 1>>>>, 4)
    /\ mpLast.op = "read" /\ mpLast.ret # 0 /\ mpLast.sample = 5
    /\ parser.currentChunk = 4 /\ parser.samplesInCurrentChunk = 1
    /\ parser.samplesReadInChunk = 1


(***************************************************************************)
(* Claims about the frame length field of the ADTS header.                 *)
(***************************************************************************)
\* the 13-bit frame length field of a header, as a decoder reads it
HeaderFrameLength(header) ==
    BitOr(BitOr(Shl(BitAnd(header[3], 3), 11), Shl(header[4], 3)),
          Shr(header[5], 5))

\* C15: for every length L with 7 <= L <= 8191 the length field of the
\* header generateAdtsHeader writes reads back as L, the low five bits of
\* header[5] are 0x1F, and the channel configuration bits of header[2] and
\* header[3] are those of the channel count, whatever L is.
ThmC15 ==
    (adts.header # <<>> /\ 7 <= adts.len /\ adts.len <= 8191) =>
        /\ HeaderFrameLength(adts.header) = adts.len
        /\ BitAnd(adts.header[5], 31) = 31
        /\ BitAnd(adts.header[2], 1) = BitAnd(Shr(adts.channels, 2), 1)
        /\ Shr(adts.header[3], 6) = BitAnd(adts.channels, 3)
\* the largest length of the claim, with a channel count that sets a
\* channel bit in header[2] and one in header[3]
WitC15 ==
    /\ adts.header # <<>> /\ adts.len = 8191 /\ adts.channels = 6
    /\ adts.header[3] = 128 + 3 /\ adts.header[4] = 255 /\ adts.header[5] = 255
    /\ BitAnd(adts.header[2], 1) = 1


(***************************************************************************)
(* SpecWalk: MP4Parser::open one loop iteration at a time.  walk.pc is the *)
(* loop the call is in ("top", "moov", "trak", "mdia", "minf", "stbl"),    *)
(* "final" after the top-level scan, "done" after the return.  walk.lv     *)
(* holds the locals of each loop: its end, its count, the next-sibling     *)
(* position its current iteration has computed and, as history, the start  *)
(* and the size of the child it read last.  walk.hdr is history: the       *)
(* header the last step read.                                              *)
(***************************************************************************)
Levels == {"top", "moov", "trak", "mdia", "minf", "stbl"}
Frame(end) ==
    [end |-> end, count |-> 0, next |-> 0,
     hasChild |-> FALSE, childAt |-> 0, childSize |-> 0]
NoHdr == [level |-> "none", at |-> 0, size |-> 0, follows |-> FALSE,
          prevAt |-> 0, prevSize |-> 0]

\* the files of SpecWalk: built files, and built files with the declared
\* size of one box changed
BoxAt(bytes, type, from) ==
    CHOOSE i \in from .. Len(bytes) - 7 :
        /\ SubSeq(bytes, i + 4, i + 7) = B32(type)
        /\ \A j \in from .. i - 1 : SubSeq(bytes, j + 4, j + 7) # B32(type)
SetWord(bytes, i, v) ==
    [k \in 1 .. Len(bytes) |-> IF k \in i .. i + 3 THEN B32(v)[k - i + 1] ELSE bytes[k]]
Damaged(how, cfg, box, size, bytes) ==
    [id |-> [kind |-> "damaged", how |-> how, of |-> cfg, box |-> box, size |-> size],
     bytes |-> bytes]
Resized(cfg, box, at, size) ==
    Damaged("resized", cfg, box, size, SetWord(BuildFile(cfg), at, size))
OneTrack == Mp4File(<<AudioTrack>>, 2, 1, SharedSize)
TwoTracks == Mp4File(<<VideoTrack, AudioTrack>>, 2, 1, SharedSize)
PastEnd == \h10000000         \* a box size no built file has room for
BoxOf(cfg, type) == BoxAt(BuildFile(cfg), type, 1)
SecondTrak(cfg) == BoxAt(BuildFile(cfg), FourCC_trak, BoxOf(cfg, FourCC_trak) + 1)
DamagedFiles ==
    { Resized(OneTrack, FourCC_mdat, BoxOf(OneTrack, FourCC_mdat), size) :
          \* the last one leads back to the start of the file
          size \in {0, 1, 4, 1 - BoxOf(OneTrack, FourCC_mdat)} }
    \cup { Resized(OneTrack, box, BoxOf(OneTrack, box), size) :
             box \in {FourCC_moov, FourCC_trak, FourCC_mdia, FourCC_hdlr,
                      FourCC_minf, FourCC_stbl, FourCC_stsd, FourCC_stsz},
             size \in {4, PastEnd} }
    \cup { \* the last child of stbl leads back to the first
           Resized(OneTrack, FourCC_stco, BoxOf(OneTrack, FourCC_stco),
                   BoxOf(OneTrack, FourCC_stsd) - BoxOf(OneTrack, FourCC_stco)),
           \* the last child of mdia leads back to the first
           Resized(OneTrack, FourCC_minf, BoxOf(OneTrack, FourCC_minf),
                   BoxOf(OneTrack, FourCC_hdlr) - BoxOf(OneTrack, FourCC_minf)),
           \* the second trak leads back to the first
           Resized(TwoTracks, FourCC_trak, SecondTrak(TwoTracks),
                   BoxOf(TwoTracks, FourCC_trak) - SecondTrak(TwoTracks)),
           \* an extended size whose low word is the size of the box
           Damaged("extended", OneTrack, FourCC_ftyp, 1,
                   SetWord(SetWord(BuildFile(OneTrack), 1, 1), 13, Len(FtypBox))),
           \* a file cut off inside its last box
           Damaged("cut", OneTrack, FourCC_stco, 0,
                   SubSeq(BuildFile(OneTrack), 1, Len(BuildFile(OneTrack)) - 6)) }
WalkFiles ==
    {FileOf(cfg) : cfg \in {OneTrack, TwoTracks, MissingFile,
                            Mp4File(<<AudioTrack, VideoTrack>>, 2, 1, SharedSize),
                            [Mp4File(<<>>, 2, 1, SharedSize) EXCEPT !.moov = FALSE]}}
        \cup DamagedFiles

\* the machine of a step of the call, and the state after the step
WalkMachine ==
    [p |-> parser, f |-> file, g |-> walk.g, isAudio |-> walk.isAudio,
     short |-> walk.short]
Step(r) ==
    /\ parser' = r.m.p
    /\ file' = r.m.f
    /\ walk' = [r.w EXCEPT !.isAudio = r.m.isAudio, !.short = r.m.short]

\* a loop has read the header of one more child: count++
Child(w, level, at, size) ==
    [w EXCEPT !.lv[level].count = @ + 1,
              !.lv[level].hasChild = TRUE,
              !.lv[level].childAt = at,
              !.lv[level].childSize = size,
              !.hdr = [level |-> level, at |-> at, size |-> size,
                       follows |-> w.lv[level].hasChild,
                       prevAt |-> w.lv[level].childAt,
                       prevSize |-> w.lv[level].childSize]]
\* getPos() + size - 8 right after the header of a child
NextSibling(h) == Add32(Add32(getPos(h.m), h.size), -8)
\* the loop over the children of the box just read starts; the iteration
\* of the enclosing loop has computed its next-sibling position
Enter(w, level, h, parent) ==
    [w EXCEPT !.pc = level, !.lv[level] = Frame(NextSibling(h)),
              !.lv[parent].next = NextSibling(h)]
\* a loop is over: the enclosing iteration goes on with seek(next sibling)
Leave(w, parent, m) ==
    [w |-> [w EXCEPT !.pc = parent], m |-> seek(m, w.lv[parent].next)]
\* an iteration that does not descend ends with seek(next sibling)
Sibling(w, m, h) == [w |-> w, m |-> seek(m, NextSibling(h))]

\* open: while (pos < fileSize && atomCount < 1000)
TopContinuesPastLimit(m, pos, atomCount) ==
    ULt(pos, fileSize(m)) /\ atomCount <= TopAtomLimit
TopContinues(m, pos, atomCount) ==
    ULt(pos, fileSize(m)) /\ atomCount < TopAtomLimit
\* while (getPos() < endPos && count < limit) of the nested loops
Continues(m, frame, limit) == ULt(getPos(m), frame.end) /\ frame.count < limit

\* open: pos += atomSize; if (pos > fileSize) break;
TopAdvance(w, m, moovFound) ==
    [w |-> [w EXCEPT !.moovFound = moovFound,
                     !.pos = Add32(w.pos, w.atomSize),
                     !.pc = IF UGt(Add32(w.pos, w.atomSize), fileSize(m))
                            THEN "final" ELSE "top"],
     m |-> m]
\* open: one iteration of the scan of the top-level atoms, h0 the header
\* read at pos and h the header after "Extended size"
TopIter(w, h0, h) ==
    IF h0.size = 0 THEN [w |-> [Child(w, "top", w.pos, 0) EXCEPT !.pc = "final"], m |-> h0.m]
    ELSE IF ULt(h.size, 8)
    THEN [w |-> [Child(w, "top", w.pos, h.size) EXCEPT !.pc = "final"], m |-> h.m]
    ELSE IF h.type = FourCC_moov
    THEN [w |-> [Child(w, "top", w.pos, h.size)
                   EXCEPT !.pc = "moov", !.atomSize = h.size,
                          !.lv["moov"] = Frame(Add32(getPos(h.m), Add32(h.size, -8)))],
          m |-> h.m]
    ELSE TopAdvance([Child(w, "top", w.pos, h.size) EXCEPT !.atomSize = h.size],
                    IF h.type = FourCC_mdat
                    THEN [h.m EXCEPT !.p.mdatOffset = Add32(w.pos, 8)] ELSE h.m,
                    w.moovFound)
\* parseMoov has returned: moovFound = true; pos += atomSize
MoovReturns(w, m) == TopAdvance(w, m, TRUE)
\* parseMoov: one iteration of the loop over the children of moov
MoovIter(w, m, h) ==
    IF ULt(h.size, 8) THEN MoovReturns(Child(w, "moov", getPos(m), h.size), h.m)
    ELSE IF h.type = FourCC_trak
    THEN [w |-> Enter(Child(w, "moov", getPos(m), h.size), "trak", h, "moov"),
          m |-> [h.m EXCEPT !.isAudio = FALSE, !.p.stszOffset = 0,
                            !.p.stcoOffset = 0, !.p.stscOffset = 0]]
    ELSE Sibling(Child(w, "moov", getPos(m), h.size), h.m, h)
\* parseTrak returns: parseMoov returns true for an accepted track and
\* goes on with seek(nextAtomPos) otherwise
TrakReturns(w, m) ==
    IF TrakAccepted(m) THEN MoovReturns(w, m) ELSE Leave(w, "moov", m)
\* parseTrak: one iteration of the loop over the children of trak
TrakIter(w, m, h) ==
    IF ULt(h.size, 8) THEN TrakReturns(Child(w, "trak", getPos(m), h.size), h.m)
    ELSE IF h.type = FourCC_mdia
    THEN [w |-> Enter(Child(w, "trak", getPos(m), h.size), "mdia", h, "trak"), m |-> h.m]
    ELSE Sibling(Child(w, "trak", getPos(m), h.size), h.m, h)
\* parseTrak: one iteration of the loop over the children of mdia
MdiaIter(w, m, h) ==
    IF ULt(h.size, 8) THEN Leave(Child(w, "mdia", getPos(m), h.size), "trak", h.m)
    ELSE IF h.type = FourCC_minf
    THEN [w |-> Enter(Child(w, "mdia", getPos(m), h.size), "minf", h, "mdia"), m |-> h.m]
    ELSE Sibling(Child(w, "mdia", getPos(m), h.size),
                 IF h.type = FourCC_hdlr
                 THEN CheckHandler(readUI32BE(skip(h.m, 8))) ELSE h.m,
                 h)
\* parseTrak: one iteration of the loop over the children of minf
MinfIter(w, m, h) ==
    IF ULt(h.size, 8) THEN Leave(Child(w, "minf", getPos(m), h.size), "mdia", h.m)
    ELSE IF h.type = FourCC_stbl
    THEN [w |-> Enter(Child(w, "minf", getPos(m), h.size), "stbl", h, "minf"), m |-> h.m]
    ELSE Sibling(Child(w, "minf", getPos(m), h.size), h.m, h)
\* parseTrak: what the loop over the children of stbl does with a child
StblChild(h) ==
    IF h.type = FourCC_stsz THEN [h.m EXCEPT !.p.stszOffset = Add32(getPos(h.m), -8)]
    ELSE IF h.type = FourCC_stco THEN [h.m EXCEPT !.p.stcoOffset = Add32(getPos(h.m), -8)]
    ELSE IF h.type = FourCC_stsc THEN [h.m EXCEPT !.p.stscOffset = Add32(getPos(h.m), -8)]
    ELSE IF h.type = FourCC_stsd THEN parseStsd(h.m, Add32(h.size, -8))
    ELSE h.m
\* parseTrak: one iteration of the loop over the children of stbl
StblIter(w, m, h) ==
    IF ULt(h.size, 8) THEN Leave(Child(w, "stbl", getPos(m), h.size), "minf", h.m)
    ELSE [w |-> Child(w, "stbl", getPos(m), h.size),
          m |-> seek(StblChild(h), NextSibling(h))]

\* open: the file is opened and the state reset ("Reset State")
OpenReset(m, fl, isFlash) ==
    [m EXCEPT !.p.usingFlash = isFlash,
              !.f = [open |-> TRUE, id |-> fl.id, bytes |-> fl.bytes, pos |-> 0],
              !.p.stszOffset = 0, !.p.stcoOffset = 0, !.p.stscOffset = 0,
              !.p.mdatOffset = 0, !.p.currentSample = 0, !.p.currentChunk = 1,
              !.p.samplesReadInChunk = 0]
Walking(pc, g) ==
    [pc |-> pc, g |-> g, isAudio |-> FALSE, short |-> FALSE,
     pos |-> 0, atomSize |-> 0, moovFound |-> FALSE,
     lv |-> [l \in Levels |-> Frame(0)], hdr |-> NoHdr, ret |-> FALSE]

\* the files with reads at or past their end
ReadsShort(fl) ==
    fl.id.kind = "damaged" /\ (fl.id.how = "cut" \/ fl.id.size = PastEnd)
\* the files whose boxes lead back to boxes already read
LeadsBack(fl) == fl.id.kind = "damaged" /\ fl.id.size < 0

OpenCall(fl, isFlash) ==
    /\ walk.pc = "idle"
    /\ mpLast' = mpLast
    /\ \E g \in Garbage(ReadsShort(fl)) :
          IF fl.id.kind = "missing"
          THEN Step([w |-> Walking("done", g),
                     m |-> [Machine(g) EXCEPT !.p.usingFlash = isFlash,
                                              !.f = [open |-> FALSE, id |-> fl.id,
                                                     bytes |-> fl.bytes, pos |-> 0]]])
          ELSE Step([w |-> Walking("top", g),
                     m |-> OpenReset(Machine(g), fl, isFlash)])
TopStep ==
    /\ walk.pc = "top"
    /\ mpLast' = mpLast
    /\ \E m \in {WalkMachine} :
          IF TopContinues(m, walk.pos, walk.lv["top"].count)
          THEN \E h0 \in {ReadAtomHeader(seek(m, walk.pos))} :
                  \E h \in {ExtendedSize(h0, walk.pos)} : Step(TopIter(walk, h0, h))
          ELSE Step([w |-> [walk EXCEPT !.pc = "final", !.hdr = NoHdr], m |-> m])
MoovStep ==
    /\ walk.pc = "moov"
    /\ mpLast' = mpLast
    /\ \E m \in {WalkMachine} :
          IF Continues(m, walk.lv["moov"], MoovAtomLimit)
          THEN \E h \in {ReadAtomHeader(m)} : Step(MoovIter(walk, m, h))
          ELSE Step(MoovReturns([walk EXCEPT !.hdr = NoHdr], m))
TrakStep ==
    /\ walk.pc = "trak"
    /\ mpLast' = mpLast
    /\ \E m \in {WalkMachine} :
          IF Continues(m, walk.lv["trak"], TrakAtomLimit)
          THEN \E h \in {ReadAtomHeader(m)} : Step(TrakIter(walk, m, h))
          ELSE Step(TrakReturns([walk EXCEPT !.hdr = NoHdr], m))
MdiaStep ==
    /\ walk.pc = "mdia"
    /\ mpLast' = mpLast
    /\ \E m \in {WalkMachine} :
          IF Continues(m, walk.lv["mdia"], MdiaAtomLimit)
          THEN \E h \in {ReadAtomHeader(m)} : Step(MdiaIter(walk, m, h))
          ELSE Step(Leave([walk EXCEPT !.hdr = NoHdr], "trak", m))
MinfStep ==
    /\ walk.pc = "minf"
    /\ mpLast' = mpLast
    /\ \E m \in {WalkMachine} :
          IF Continues(m, walk.lv["minf"], MinfAtomLimit)
          THEN \E h \in {ReadAtomHeader(m)} : Step(MinfIter(walk, m, h))
          ELSE Step(Leave([walk EXCEPT !.hdr = NoHdr], "mdia", m))
StblStep ==
    /\ walk.pc = "stbl"
    /\ mpLast' = mpLast
    /\ \E m \in {WalkMachine} :
          IF Continues(m, walk.lv["stbl"], StblAtomLimit)
          THEN \E h \in {ReadAtomHeader(m)} : Step(StblIter(walk, m, h))
          ELSE Step(Leave([walk EXCEPT !.hdr = NoHdr], "minf", m))
\* open: the test of the tables, "Initialize Reading State", the return
OpenReturn ==
    /\ walk.pc = "final"
    /\ \E m \in {WalkMachine} :
          \E ok \in {OpenAccepts(walk.moovFound, m.p)} :
             /\ Step([w |-> [walk EXCEPT !.pc = "done", !.ret = ok, !.hdr = NoHdr],
                      m |-> IF ok THEN InitReadingState(m) ELSE m])
             /\ mpLast' = [NoCall EXCEPT !.op = "open", !.ok = ok, !.opens = 1,
                                         !.openOk = ok]

InitWalk ==
    /\ RingInit /\ buffer = [c \in Cells |-> 0]
    /\ prod = ProdIdle /\ cons = ConsIdle /\ inFlight = <<>>
    /\ adts = AdtsIdle
    /\ \E a \in UninitWords, b \in UninitWords, c \in UninitWords, d \in UninitWords :
          parser = Constructed(a, b, c, d)
    /\ file = [open |-> FALSE, id |-> MissingFile, bytes |-> <<>>, pos |-> 0]
    /\ mpLast = NoCall
    /\ walk = WalkIdle
    /\ StreamsIdle

NextWalk ==
    \/ \E fl \in WalkFiles, isFlash \in BOOLEAN :
          OpenCall(fl, isFlash) /\ UNCHANGED <<rbVars, histVars, spscVars, adts, streamVars>>
    \/ TopStep /\ UNCHANGED <<rbVars, histVars, spscVars, adts, streamVars>>
    \/ MoovStep /\ UNCHANGED <<rbVars, histVars, spscVars, adts, streamVars>>
    \/ TrakStep /\ UNCHANGED <<rbVars, histVars, spscVars, adts, streamVars>>
    \/ MdiaStep /\ UNCHANGED <<rbVars, histVars, spscVars, adts, streamVars>>
    \/ MinfStep /\ UNCHANGED <<rbVars, histVars, spscVars, adts, streamVars>>
    \/ StblStep /\ UNCHANGED <<rbVars, histVars, spscVars, adts, streamVars>>
    \/ OpenReturn /\ UNCHANGED <<rbVars, histVars, spscVars, adts, streamVars>>

\* the call is one thread of control: a step that can be taken is taken
SpecWalk == InitWalk /\ [][NextWalk]_vars /\ WF_vars(NextWalk)

\* the steps add up to the call: open as a whole returns what the steps do
WalkIsOpen ==
    /\ (walk.pc # "idle" /\ walk.short) => ReadsShort(file)
    /\ (walk.pc = "done" /\ ~LeadsBack(file) /\ ~ReadsShort(file)) =>
        \E r \in {open([p |-> parser, f |-> file, g |-> walk.g,
                        isAudio |-> FALSE, short |-> FALSE],
                       file, parser.usingFlash)} :
            r.ret = walk.ret /\ r.m.p = parser /\ r.m.f = file


(***************************************************************************)
(* Claims about the walk of the boxes in MP4Parser::open.                  *)
(***************************************************************************)
\* the ceiling of the loop of each level
AtomLimit(level) ==
    CASE level = "top" -> TopAtomLimit
      [] level = "moov" -> MoovAtomLimit
      [] level = "trak" -> TrakAtomLimit
      [] level = "mdia" -> MdiaAtomLimit
      [] level = "minf" -> MinfAtomLimit
      [] level = "stbl" -> StblAtomLimit

\* the loops from the outermost to the innermost
Nesting == <<"top", "moov", "trak", "mdia", "minf", "stbl">>
Depth(pc) == CHOOSE i \in 1 .. Len(Nesting) : Nesting[i] = pc
\* the iterations a loop the call is in has left, and one for leaving it
Remaining(w, i) ==
    IF w.pc \in Levels /\ i <= Depth(w.pc)
    THEN AtomLimit(Nesting[i]) - w.lv[Nesting[i]].count + 1
    ELSE 0
\* the measure of what a call has left to do: the call to make, the
\* iterations left from the outermost loop to the innermost, the return
Rank(w) ==
    IF w.pc = "idle" THEN <<1, 0, 0, 0, 0, 0, 0, 0>>
    ELSE <<0>> \o [i \in 1 .. Len(Nesting) |-> Remaining(w, i)]
              \o <<IF w.pc = "final" THEN 1 ELSE 0>>
\* the lexicographic order of two measures
LexLess(a, b) ==
    \E i \in 1 .. Len(a) : a[i] < b[i] /\ \A j \in 1 .. i - 1 : a[j] = b[j]

\* C16: open returns on every file, well-formed or damaged: every step of
\* a call leaves it in one of its loops, before its return or returned,
\* and lowers a measure that cannot fall forever.  No loop reads more
\* headers than its ceiling (1000 at the top level, 500, 500, 100, 100, 100
\* below); a header whose size is below 8 ends the loop that read it, and
\* a size of 0 at the top level ends the top-level scan.
ThmC16 ==
    [][/\ walk'.pc \in Levels \cup {"final", "done"}
       /\ LexLess(Rank(walk'), Rank(walk))
       /\ \A i \in 1 .. Len(Nesting) : Remaining(walk', i) >= 0
       /\ \A level \in Levels : walk'.lv[level].count <= AtomLimit(level)
       /\ (walk'.hdr.level # "none" /\ ULt(walk'.hdr.size, 8)) =>
             /\ walk'.pc # walk'.hdr.level
             /\ (walk'.hdr.level = "top" => walk'.pc = "final")]_vars
\* the ceiling of the top level has ended the scan of a file whose boxes
\* lead back to its start
WitC16 ==
    /\ walk.pc = "done" /\ LeadsBack(file)
    /\ walk.lv["top"].count = TopAtomLimit
    /\ ULt(walk.pos, Len(file.bytes))

\* C17 as stated: a header read after a sibling of the same loop is read
\* at the sibling's start plus the sibling's size.
OrigC17 ==
    (walk.pc # "idle" /\ walk.hdr.follows) =>
        walk.hdr.at = Add32(walk.hdr.prevAt, walk.hdr.prevSize)


(***************************************************************************)
(* SpecStreams: the stream slots and the decoder pools (config.h) under    *)
(* the commands of serial_commands.cpp.  startStream and stopStream are    *)
(* defined in audio_playback.cpp; they are modelled after the stream slot  *)
(* lifecycle of the specification: a start stops the prior stream of its   *)
(* slot, opens the source, borrows the first free decoder of the pool of   *)
(* its format and fails, leaving the slot inactive, if the source does not *)
(* open or no decoder is free; a stop releases the decoder and clears the  *)
(* active flag.                                                            *)
(***************************************************************************)
maxStreams == 3            \* DEFAULT_MAX_STREAMS
maxMp3Decoders == 2        \* the size of the MP3 decoder pool
maxAacDecoders == 1        \* the size of the AAC decoder pool
Slots == 0 .. maxStreams - 1

\* enum AudioFormat: the formats a start request can name
AudioFormats == {"FORMAT_WAV", "FORMAT_MP3", "FORMAT_AAC", "FORMAT_M4A"}
\* the files a start request names, as <<format, on flash>>: every format
\* on the SD card, and a WAV file of the flash bank
Sources == {<<format, FALSE>> : format \in AudioFormats} \cup {<<"FORMAT_WAV", TRUE>>}
\* the decoder pool a format borrows from; frames of an M4A file go to an
\* AAC decoder behind an ADTS header
PoolOf(format) ==
    CASE format = "FORMAT_MP3" -> "mp3"
      [] format \in {"FORMAT_AAC", "FORMAT_M4A"} -> "aac"
      [] OTHER -> "none"
\* enum StreamType
StreamTypeOf(format, isFlash) ==
    CASE format = "FORMAT_WAV" -> IF isFlash THEN "STREAM_TYPE_WAV_FLASH" ELSE "STREAM_TYPE_WAV_SD"
      [] format = "FORMAT_MP3" -> IF isFlash THEN "STREAM_TYPE_MP3_FLASH" ELSE "STREAM_TYPE_MP3_SD"
      [] format = "FORMAT_AAC" -> IF isFlash THEN "STREAM_TYPE_AAC_FLASH" ELSE "STREAM_TYPE_AAC_SD"
      [] format = "FORMAT_M4A" -> IF isFlash THEN "STREAM_TYPE_M4A_FLASH" ELSE "STREAM_TYPE_M4A_SD"
PoolOfType(type) ==
    CASE type \in {"STREAM_TYPE_MP3_SD", "STREAM_TYPE_MP3_FLASH"} -> "mp3"
      [] type \in {"STREAM_TYPE_AAC_SD", "STREAM_TYPE_AAC_FLASH",
                   "STREAM_TYPE_M4A_SD", "STREAM_TYPE_M4A_FLASH"} -> "aac"
      [] OTHER -> "none"

\* struct AudioStream: the fields the lifecycle of a slot sets
InactiveStream == [active |-> FALSE, type |-> "STREAM_TYPE_INACTIVE", decoderIndex |-> -1]

\* the slots and the pools as one value st
StreamState == [streams |-> streams, mp3 |-> mp3DecoderInUse, aac |-> aacDecoderInUse]

\* the first free index of a pool ("linear scan for the first free index"),
\* -1 if every decoder is in use
FirstFree(inUse) ==
    IF \A i \in DOMAIN inUse : inUse[i] THEN -1
    ELSE CHOOSE i \in DOMAIN inUse : ~inUse[i] /\ \A j \in DOMAIN inUse : j < i => inUse[j]

\* void stopStream(int streamIdx)
stopStreamKeepsDecoder(st, streamIdx) ==
    [st EXCEPT !.streams[streamIdx] = InactiveStream]
stopStream(st, streamIdx) ==
    IF ~st.streams[streamIdx].active THEN st
    ELSE The({ [(IF pool = "none" \/ st.streams[streamIdx].decoderIndex < 0 THEN st
                 ELSE [st EXCEPT ![pool][st.streams[streamIdx].decoderIndex] = FALSE])
                  EXCEPT !.streams[streamIdx] = InactiveStream]
               : pool \in {PoolOfType(st.streams[streamIdx].type)} })

\* the start of a stream in a slot no stream holds: the source opens (ok)
\* or not, a decoder is borrowed if the format needs one
Activate(st, streamIdx, format, isFlash, ok, pool, free) ==
    IF ~ok THEN [st |-> st, ret |-> FALSE]
    ELSE IF pool = "none"
    THEN [st |-> [st EXCEPT !.streams[streamIdx] =
                      [active |-> TRUE, type |-> StreamTypeOf(format, isFlash),
                       decoderIndex |-> -1]],
          ret |-> TRUE]
    ELSE IF free < 0 THEN [st |-> st, ret |-> FALSE]
    ELSE [st |-> [st EXCEPT ![pool][free] = TRUE,
                            !.streams[streamIdx] =
                                [active |-> TRUE, type |-> StreamTypeOf(format, isFlash),
                                 decoderIndex |-> free]],
          ret |-> TRUE]
BorrowFrom(st, streamIdx, format, isFlash, ok, pool) ==
    Activate(st, streamIdx, format, isFlash, ok, pool,
             IF pool = "none" THEN -1 ELSE FirstFree(st[pool]))

\* bool startStream(int streamIdx, const char* filename)
startStreamOverActive(st, streamIdx, format, isFlash, ok) ==
    BorrowFrom(st, streamIdx, format, isFlash, ok, PoolOf(format))
startStreamTakesFirst(st, streamIdx, format, isFlash, ok) ==
    Activate(stopStream(st, streamIdx), streamIdx, format, isFlash, ok,
             PoolOf(format), 0)
startStream(st, streamIdx, format, isFlash, ok) ==
    BorrowFrom(stopStream(st, streamIdx), streamIdx, format, isFlash, ok, PoolOf(format))

\* int getNextAvailableStream(): the first inactive slot, or slot 0
getNextAvailableStreamHighest(slots) ==
    IF \E i \in Slots : ~slots[i].active
    THEN CHOOSE i \in Slots : ~slots[i].active /\ \A j \in Slots : j > i => slots[j].active
    ELSE 0
getNextAvailableStream(slots) ==
    IF \E i \in Slots : ~slots[i].active
    THEN CHOOSE i \in Slots : ~slots[i].active /\ \A j \in Slots : j < i => slots[j].active
    ELSE 0

\* the decoder the operation op freed, if it was the stop of a slot that held one
NoDecoder == [pool |-> "none", index |-> -1]
Freed(op) ==
    IF op.op = "stop" /\ op.prior.active /\ op.prior.decoderIndex >= 0
    THEN [pool |-> PoolOfType(op.prior.type), index |-> op.prior.decoderIndex]
    ELSE NoDecoder

\* the state after an operation, and what the operation was: the slot it was
\* for, its slot's stream before it (prior), the decoder the operation
\* before it had freed (after), and its volume argument (arg)
Done(r, op, streamIdx, format, ok, arg) ==
    /\ streams' = r.st.streams
    /\ mp3DecoderInUse' = r.st.mp3
    /\ aacDecoderInUse' = r.st.aac
    /\ stLast' = [op |-> op, streamIdx |-> streamIdx, format |-> format, ok |-> ok,
                  ret |-> r.ret, prior |-> streams[streamIdx], after |-> Freed(stLast),
                  arg |-> arg]

\* a start request for a slot (the playback control surface)
StartStream(streamIdx, format, isFlash, ok) ==
    \E r \in {startStream(StreamState, streamIdx, format, isFlash, ok)} :
        Done(r, "start", streamIdx, format, ok, -1)
\* (float)volume / 99.0f as the nearest float: man / 2^exp with a mantissa
\* of 24 bits, ties to even
RECURSIVE ScaleUp(_, _)
ScaleUp(x, exp) ==
    IF x \div 99 >= 2 ^ 23 THEN [x |-> x, exp |-> exp] ELSE ScaleUp(2 * x, exp + 1)
Rounded(q, r, exp) ==
    The({ IF man = 2 ^ 24 THEN [man |-> 2 ^ 23, exp |-> exp - 1]
          ELSE [man |-> man, exp |-> exp]
          : man \in {IF 2 * r > 99 \/ (2 * r = 99 /\ q % 2 = 1) THEN q + 1 ELSE q} })
DivBy99(v) ==
    IF v = 0 THEN [man |-> 0, exp |-> 0]
    ELSE The({ Rounded(sc.x \div 99, sc.x % 99, sc.exp) : sc \in {ScaleUp(v, 0)} })

\* if (volume > 99) volume = 99;
ClampHighAbove100(v) == IF v > 100 THEN 100 ELSE v
ClampHigh(v) == IF v > 99 THEN 99 ELSE v
\* if (volume < 0) volume = 0;
ClampLow(v) == IF v < 0 THEN 0 ELSE v

\* void handlePlay(Stream &serial, char* args), for a sound that exists;
\* volumeArg is -1 when the command has no volume argument
HandlePlay(format, isFlash, ok, volumeArg) ==
    \E stream \in {getNextAvailableStream(streams)} :
        /\ ~(stream < 0 \/ stream >= maxStreams)
        /\ \E r \in {startStream(StreamState, stream, format, isFlash, ok)} :
              /\ Done(r, "play", stream, format, ok, volumeArg)
              /\ volume' = IF r.ret /\ volumeArg >= 0
                            THEN [volume EXCEPT ![stream] = DivBy99(ClampHigh(volumeArg))]
                            ELSE volume
\* the record of a VOL command
VolumeCmd(op, stream, arg) ==
    [op |-> op, streamIdx |-> stream, format |-> "none", ok |-> TRUE, ret |-> TRUE,
     prior |-> InactiveStream, after |-> NoDecoder, arg |-> arg]
\* void handleVolume(Stream &serial, char* args) with two arguments
HandleVolume(stream, volumeArg) ==
    /\ volume' = IF stream >= 0 /\ stream < maxStreams
                  THEN [volume EXCEPT ![stream] = DivBy99(ClampHigh(ClampLow(volumeArg)))]
                  ELSE volume
    /\ stLast' = VolumeCmd("vol", stream, volumeArg)
    /\ UNCHANGED <<streams, mp3DecoderInUse, aacDecoderInUse>>
\* handleVolume with one argument: every stream
HandleVolumeAll(volumeArg) ==
    /\ volume' = [i \in Slots |-> DivBy99(ClampHigh(ClampLow(volumeArg)))]
    /\ stLast' = VolumeCmd("volAll", 0, volumeArg)
    /\ UNCHANGED <<streams, mp3DecoderInUse, aacDecoderInUse>>
\* void handleStop(Stream &serial, char* args) for one stream
HandleStop(stream) ==
    /\ stream >= 0 /\ stream < maxStreams
    /\ Done([st |-> stopStream(StreamState, stream), ret |-> TRUE],
            "stop", stream, "none", TRUE, -1)
\* handleStop for all streams ("Stop all")
RECURSIVE StopFrom(_, _)
StopFrom(st, i) == IF i >= maxStreams THEN st ELSE StopFrom(stopStream(st, i), i + 1)
HandleStopAll ==
    Done([st |-> StopFrom(StreamState, 0), ret |-> TRUE], "stopAll", 0, "none", TRUE, -1)

InitStreams ==
    /\ RingInit /\ buffer = [c \in Cells |-> 0]
    /\ prod = ProdIdle /\ cons = ConsIdle /\ inFlight = <<>>
    /\ adts = AdtsIdle
    /\ parser = ParserIdle /\ file = <<>> /\ mpLast = MpIdle
    /\ walk = WalkIdle
    /\ streams = [i \in Slots |-> InactiveStream]
    /\ mp3DecoderInUse = [i \in 0 .. maxMp3Decoders - 1 |-> FALSE]
    /\ aacDecoderInUse = [i \in 0 .. maxAacDecoders - 1 |-> FALSE]
    /\ stLast = [op |-> "none", streamIdx |-> 0, format |-> "none", ok |-> TRUE,
                 ret |-> TRUE, prior |-> InactiveStream, after |-> NoDecoder, arg |-> -1]
    /\ volume = VolumeIdle /\ fb = FbIdle /\ fs = FsIdle /\ CtlIdle

NextStreams ==
    \/ \E streamIdx \in Slots, source \in Sources, ok \in BOOLEAN :
          StartStream(streamIdx, source[1], source[2], ok)
            /\ UNCHANGED <<rbVars, histVars, spscVars, adts, mp4Vars, walk, volume, fb, fs, ctlVars>>
    \/ \E source \in Sources, ok \in BOOLEAN :
          HandlePlay(source[1], source[2], ok, -1)
            /\ UNCHANGED <<rbVars, histVars, spscVars, adts, mp4Vars, walk, fb, fs, ctlVars>>
    \/ \E stream \in Slots :
          HandleStop(stream) /\ UNCHANGED <<rbVars, histVars, spscVars, adts, mp4Vars, walk, volume, fb, fs, ctlVars>>
    \/ HandleStopAll /\ UNCHANGED <<rbVars, histVars, spscVars, adts, mp4Vars, walk, volume, fb, fs, ctlVars>>

SpecStreams == InitStreams /\ [][NextStreams]_vars


\* the in-use flags of a decoder pool
InUse(pool) == IF pool = "mp3" THEN mp3DecoderInUse ELSE aacDecoderInUse
InUseNext(pool) == IF pool = "mp3" THEN mp3DecoderInUse' ELSE aacDecoderInUse'
PoolFull(pool) == \A d \in DOMAIN InUse(pool) : InUse(pool)[d]
Pools == {"mp3", "aac"}
\* slot i holds decoder d of the pool
Holds(i, pool, d) ==
    /\ streams[i].active
    /\ PoolOfType(streams[i].type) = pool
    /\ streams[i].decoderIndex = d
IsStart(op) == op.op \in {"start", "play"}

ThmC19 ==
    [][/\ (/\ stLast'.op = "stop"
           /\ streams[stLast'.streamIdx].active
           /\ streams[stLast'.streamIdx].decoderIndex >= 0) =>
              /\ streams'[stLast'.streamIdx] = InactiveStream
              /\ ~InUseNext(PoolOfType(streams[stLast'.streamIdx].type))[
                         streams[stLast'.streamIdx].decoderIndex]
       /\ (/\ Freed(stLast) # NoDecoder
           /\ IsStart(stLast')
           /\ PoolOf(stLast'.format) = Freed(stLast).pool
           /\ stLast'.ok) =>
              /\ ~InUse(Freed(stLast).pool)[Freed(stLast).index]
              /\ stLast'.ret
              /\ streams'[stLast'.streamIdx].active
              /\ streams'[stLast'.streamIdx].decoderIndex \in 0 .. Freed(stLast).index
              /\ InUseNext(Freed(stLast).pool)[streams'[stLast'.streamIdx].decoderIndex]
              /\ (/\ ~streams[stLast'.streamIdx].active
                  /\ \A d \in 0 .. Freed(stLast).index - 1 : InUse(Freed(stLast).pool)[d]) =>
                     streams'[stLast'.streamIdx].decoderIndex = Freed(stLast).index]_vars

\* a start has obtained the decoder that the stop before it freed, in a pool
\* that was full before that stop
WitC19 ==
    /\ IsStart(stLast) /\ stLast.ret
    /\ stLast.after # NoDecoder
    /\ PoolOf(stLast.format) = stLast.after.pool
    /\ streams[stLast.streamIdx].decoderIndex = stLast.after.index
    /\ stLast.after.index > 0
    /\ PoolFull(stLast.after.pool)

\* C20: in every reachable state at most one active slot holds a given
\* decoder of a given pool, a decoder is marked in use exactly while some
\* active slot holds it, and an active slot of a decoder-requiring format
\* holds a decoder of its pool.
ThmC20 ==
    /\ \A pool \in Pools : \A d \in DOMAIN InUse(pool) :
          /\ Cardinality({i \in Slots : Holds(i, pool, d)}) <= 1
          /\ InUse(pool)[d] <=> \E i \in Slots : Holds(i, pool, d)
    /\ \A i \in Slots :
          (streams[i].active /\ PoolOfType(streams[i].type) # "none") =>
              streams[i].decoderIndex \in DOMAIN InUse(PoolOfType(streams[i].type))

\* every slot is active, both pools are full, and the last play command took
\* slot 0 from the stream that held it together with that stream's decoder
WitC20 ==
    /\ stLast.op = "play" /\ stLast.ret /\ stLast.prior.active
    /\ stLast.prior.decoderIndex >= 0
    /\ \A i \in Slots : streams[i].active
    /\ \A pool \in Pools : PoolFull(pool)
    /\ streams[0].decoderIndex >= 0

\* C21: the slot a play command chooses is in 0 .. maxStreams - 1; it is the
\* lowest-numbered inactive slot when one exists and slot 0 when every slot
\* is active, and then the stream slot 0 held is stopped before the new one
\* starts: the decoder it held is free for the new start, and after the
\* command slot 0 holds the new stream or none.
ThmC21 ==
    [][stLast'.op = "play" =>
          /\ stLast'.streamIdx \in Slots
          /\ (\E i \in Slots : ~streams[i].active) =>
                /\ ~streams[stLast'.streamIdx].active
                /\ \A j \in 0 .. stLast'.streamIdx - 1 : streams[j].active
          /\ (\A i \in Slots : streams[i].active) =>
                /\ stLast'.streamIdx = 0
                /\ stLast'.prior = streams[0]
                /\ IF stLast'.ret
                   THEN /\ streams'[0].active
                        /\ streams'[0].type \in
                              {StreamTypeOf(stLast'.format, isFlash) : isFlash \in BOOLEAN}
                   ELSE streams'[0] = InactiveStream
                /\ \A pool \in Pools : \A d \in DOMAIN InUse(pool) :
                      (Holds(0, pool, d) /\ InUseNext(pool)[d]) =>
                          /\ stLast'.ret
                          /\ PoolOf(stLast'.format) = pool
                          /\ streams'[0].decoderIndex = d]_vars

\* a play command found every slot active and took slot 0, whose stream held
\* a decoder of the other pool
WitC21 ==
    /\ stLast.op = "play" /\ stLast.ret /\ stLast.streamIdx = 0
    /\ stLast.prior.active
    /\ PoolOfType(stLast.prior.type) = "mp3"
    /\ PoolOf(stLast.format) = "aac"
    /\ streams[1].active /\ streams[2].active

\* C27: in every reachable RingBuffer state, after any sequence of push, pop
\* and clear (pop on an empty buffer included), 0 <= readPos < N and
\* 0 <= writePos < N.
ThmC27 ==
    /\ readPos \in 0 .. streamBufferSize - 1
    /\ writePos \in 0 .. streamBufferSize - 1
\* a push has taken writePos from N - 1 back to 0 while readPos is not 0
WitC27 ==
    /\ rbLast.op = "push" /\ rbLast.ok
    /\ writePos = 0 /\ readPos > 0
    /\ rbLast.level > 0

(***************************************************************************)
(* SpecFifo: the RingBuffer under the consumer's discipline (pop only when *)
(* availableForRead() > 0) next to a bounded FIFO queue of capacity N - 1, *)
(* kept in inFlight: the queue takes a sample when it holds fewer than     *)
(* N - 1, gives its head, and is emptied by clear.                         *)
(***************************************************************************)
QueueCapacity == streamBufferSize - 1
Enqueue(q, sample) == IF Len(q) < QueueCapacity THEN Append(q, sample) ELSE q

FifoPush(sample) == Push(sample) /\ inFlight' = Enqueue(inFlight, sample)
FifoPop == availableForRead > 0 /\ Pop /\ inFlight' = Tail(inFlight)
FifoClear == Clear /\ inFlight' = <<>>

InitFifo == Init

NextFifo ==
    \/ \E s \in Samples :
          FifoPush(s) /\ UNCHANGED <<prod, cons, adts, mp4Vars, walk, streamVars>>
    \/ FifoPop /\ UNCHANGED <<prod, cons, adts, mp4Vars, walk, streamVars>>
    \/ FifoClear /\ UNCHANGED <<prod, cons, adts, mp4Vars, walk, streamVars>>

SpecFifo == InitFifo /\ [][NextFifo]_vars

\* C28: under the consumer's discipline availableForRead() is the length of
\* the queue, the stored cells from readPos on are the queue's elements in
\* order, a push succeeds exactly when the queue holds fewer than N - 1
\* elements, and a pop returns the head of the queue: the popped values are
\* the successfully pushed values in order, without the dropped samples.
ThmC28 ==
    /\ [](/\ availableForRead = Len(inFlight)
          /\ Len(inFlight) <= QueueCapacity
          /\ inFlight = StoredFrom(readPos))
    /\ [][/\ rbLast'.op = "push" =>
                /\ rbLast'.ok <=> Len(inFlight) < QueueCapacity
                /\ rbLast'.ok => inFlight' = Append(inFlight, rbLast'.sample)
                /\ ~rbLast'.ok => inFlight' = inFlight
          /\ rbLast'.op = "pop" =>
                /\ inFlight # <<>>
                /\ rbLast'.sample = Head(inFlight)
                /\ inFlight' = Tail(inFlight)]_vars
\* a pop from a wrapped buffer has returned the oldest of several samples,
\* which differs from the newest, after a push was dropped
WitC28 ==
    /\ rbLast.op = "pop" /\ rbLast.level = QueueCapacity
    /\ writePos < readPos
    /\ rbLast.sample # inFlight[Len(inFlight)]

(***************************************************************************)
(* SpecVolume: the gain of every slot under PLAY, VOL and STOP commands    *)
(* with integer volume arguments from the whole range of int (atoi of a    *)
(* number out of range gives some int).                                    *)
(***************************************************************************)
MinInt == -2147483647 - 1
MaxInt == 2147483647
VolumeArgs == {MinInt, -1, 0, 50, 100, MaxInt}
StreamArgs == {-1} \cup Slots \cup {maxStreams}
FullGain == DivBy99(99)

InitVolume ==
    /\ RingInit /\ buffer = [c \in Cells |-> 0]
    /\ prod = ProdIdle /\ cons = ConsIdle /\ inFlight = <<>>
    /\ adts = AdtsIdle
    /\ parser = ParserIdle /\ file = <<>> /\ mpLast = MpIdle
    /\ walk = WalkIdle
    /\ streams = [i \in Slots |-> InactiveStream]
    /\ mp3DecoderInUse = [i \in 0 .. maxMp3Decoders - 1 |-> FALSE]
    /\ aacDecoderInUse = [i \in 0 .. maxAacDecoders - 1 |-> FALSE]
    /\ stLast = [op |-> "none", streamIdx |-> 0, format |-> "none", ok |-> TRUE,
                 ret |-> TRUE, prior |-> InactiveStream, after |-> NoDecoder, arg |-> -1]
    /\ volume = [i \in Slots |-> FullGain]
    /\ fb = FbIdle /\ fs = FsIdle /\ CtlIdle

NextVolume ==
    \/ \E ok \in BOOLEAN, volumeArg \in VolumeArgs :
          HandlePlay("FORMAT_WAV", FALSE, ok, volumeArg)
            /\ UNCHANGED <<rbVars, histVars, spscVars, adts, mp4Vars, walk, fb, fs, ctlVars>>
    \/ \E stream \in StreamArgs, volumeArg \in VolumeArgs :
          HandleVolume(stream, volumeArg)
            /\ UNCHANGED <<rbVars, histVars, spscVars, adts, mp4Vars, walk, fb, fs, ctlVars>>
    \/ \E volumeArg \in VolumeArgs :
          HandleVolumeAll(volumeArg)
            /\ UNCHANGED <<rbVars, histVars, spscVars, adts, mp4Vars, walk, fb, fs, ctlVars>>
    \/ \E stream \in Slots :
          HandleStop(stream)
            /\ UNCHANGED <<rbVars, histVars, spscVars, adts, mp4Vars, walk, volume, fb, fs, ctlVars>>

SpecVolume == InitVolume /\ [][NextVolume]_vars

\* a gain man / 2^exp lies in [0.0, 1.0]
InUnit(g) == 0 <= g.man /\ g.man <= 2 ^ g.exp
\* the gains of the volumes 0 .. 99
Gains == [v \in 0 .. 99 |-> DivBy99(v)]
Clamped(arg) == IF arg > 99 THEN 99 ELSE IF arg < 0 THEN 0 ELSE arg

\* C26: after any sequence of PLAY and VOL commands with arbitrary integer
\* volume arguments the gain of every stream lies in [0.0, 1.0]: it is the
\* float nearest to v / 99 for the argument v clamped to 0 .. 99.  A PLAY
\* with no volume argument or a negative one changes no gain.
ThmC26 ==
    /\ [](/\ \A i \in Slots : InUnit(volume[i]) /\ \E v \in 0 .. 99 : Gains[v] = volume[i]
          /\ \A v \in 0 .. 99 : InUnit(Gains[v]))
    /\ [][/\ (stLast'.op = "play" /\ stLast'.arg < 0) => volume' = volume
          /\ (stLast'.op = "play" /\ stLast'.arg >= 0) =>
                /\ stLast'.ret => volume'[stLast'.streamIdx] = Gains[Clamped(stLast'.arg)]
                /\ ~stLast'.ret => volume' = volume
                /\ \A i \in Slots \ {stLast'.streamIdx} : volume'[i] = volume[i]
          /\ stLast'.op = "vol" =>
                /\ stLast'.streamIdx \in Slots =>
                       volume'[stLast'.streamIdx] = Gains[Clamped(stLast'.arg)]
                /\ \A i \in Slots \ {stLast'.streamIdx} : volume'[i] = volume[i]
          /\ stLast'.op = "volAll" =>
                \A i \in Slots : volume'[i] = Gains[Clamped(stLast'.arg)]]_vars
\* a PLAY with a negative volume argument has started a stream in a slot
\* whose gain an earlier command had set to 50 / 99, after a PLAY with a
\* volume above 99 and a VOL below 0 on other slots
WitC26 ==
    /\ stLast.op = "play" /\ stLast.arg < -1 /\ stLast.ret
    /\ volume[stLast.streamIdx] = Gains[50]
    /\ \E i, j \in Slots : volume[i] = Gains[0] /\ volume[j] = Gains[99]

(***************************************************************************)
(* SpecFeedback: one call of playVoiceFeedback (file_management.cpp) in    *)
(* the main context, statement by statement, next to the Output Consumer,  *)
(* which pops stream 0's RingBuffer from its own context.  startStream,    *)
(* stopStream, fillStreamBuffers and the Output Consumer are defined in    *)
(* audio_playback.cpp; they are modelled after the specification: a start  *)
(* resets the buffer empty, the fill pushes samples of the source while    *)
(* the buffer has room and sets fileFinished at the end of the source, the *)
(* consumer pops a sample of an active slot when one is available, and a   *)
(* stop request can arrive at any time.                                    *)
(***************************************************************************)
MaxSource == 5                   \* the longest source, in samples
SourceLens == 0 .. MaxSource

\* bool startStream(0, fullPath): the stream's fields after the call
startedStream(f, ok, len) ==
    IF ok THEN [f EXCEPT !.ok = TRUE, !.active = TRUE, !.fileFinished = FALSE,
                         !.stopRequested = FALSE, !.remaining = len]
    ELSE [f EXCEPT !.ok = FALSE]
\* void stopStream(0): the stream's fields after the call
stoppedStream(f, why) == [f EXCEPT !.active = FALSE, !.stoppedBy = why]

\* streams[0].ringBuffer->availableForRead() == 0
BufferDrainedAlways == availableForRead >= 0
BufferDrainedNever == availableForRead < 0
BufferDrained == availableForRead = 0

\* g_allowAudio = true; delay(120);
UnmuteLate(f) == [f EXCEPT !.pc = "start"]
Unmute(f) == [f EXCEPT !.g_allowAudio = TRUE, !.pc = "start"]
\* g_allowAudio = false; delay(5);
MuteSkipped(f) == [f EXCEPT !.pc = "returned"]
Mute(f) == [f EXCEPT !.g_allowAudio = FALSE, !.pc = "returned"]

FbRing == <<readPos, writePos, buffer, rbLast, rbPrev, pushRun>>

\* playVoiceFeedback(filename): sd.exists(fullPath) under sd_mutex
FbCall(exists, ok, len) ==
    /\ fb.pc = "idle"
    /\ fb' = [fb EXCEPT !.pc = "checked", !.exists = exists, !.startOk = ok, !.len = len]
    /\ UNCHANGED FbRing
\* if (!exists) return;
FbMissing ==
    /\ fb.pc = "checked" /\ ~fb.exists
    /\ fb' = [fb EXCEPT !.pc = "returned"]
    /\ UNCHANGED FbRing
FbUnmute ==
    /\ fb.pc = "checked" /\ fb.exists
    /\ fb' = Unmute(fb)
    /\ UNCHANGED FbRing
\* if (startStream(0, fullPath)) {
FbStart ==
    /\ fb.pc = "start"
    /\ IF fb.startOk
       THEN /\ Clear
            /\ fb' = [startedStream(fb, TRUE, fb.len) EXCEPT !.pc = "while"]
       ELSE /\ fb' = [startedStream(fb, FALSE, fb.len) EXCEPT !.pc = "mute"]
            /\ UNCHANGED FbRing
\* while (streams[0].active) {
FbWhile ==
    /\ fb.pc = "while"
    /\ fb' = [fb EXCEPT !.pc = IF fb.active THEN "fill" ELSE "mute"]
    /\ UNCHANGED FbRing
\* fillStreamBuffers(): one sample of the source pushed
FbFillPush ==
    /\ fb.pc = "fill" /\ fb.remaining > 0 /\ availableForWrite > 0
    /\ Push(fb.remaining % 2)
    /\ fb' = [fb EXCEPT !.remaining = fb.remaining - 1, !.pushed = fb.pushed + 1]
\* fillStreamBuffers() returns: the buffer is full or the source at its end
FbFillReturn ==
    /\ fb.pc = "fill" /\ (fb.remaining = 0 \/ availableForWrite = 0)
    /\ fb' = [fb EXCEPT !.pc = "checkStop",
                        !.fileFinished = fb.fileFinished \/ fb.remaining = 0]
    /\ UNCHANGED FbRing
\* if (streams[0].stopRequested) { stopStream(0); streams[0].stopRequested = false; }
FbCheckStop ==
    /\ fb.pc = "checkStop"
    /\ fb' = IF fb.stopRequested
             THEN [stoppedStream(fb, "request") EXCEPT !.pc = "checkFinished",
                                                      !.stopRequested = FALSE,
                                                      !.left = availableForRead]
             ELSE [fb EXCEPT !.pc = "checkFinished"]
    /\ UNCHANGED FbRing
\* if (streams[0].active && streams[0].fileFinished)
\*     if (availableForRead() == 0) stopStream(0);
\* delay(1);
FbCheckFinished ==
    /\ fb.pc = "checkFinished"
    /\ fb' = IF fb.active /\ fb.fileFinished /\ BufferDrained
             THEN [stoppedStream(fb, "finished") EXCEPT !.pc = "while",
                                                       !.left = availableForRead]
             ELSE [fb EXCEPT !.pc = "while",
                             !.waited = fb.waited \/ (fb.active /\ fb.fileFinished)]
    /\ UNCHANGED FbRing
FbMute ==
    /\ fb.pc = "mute"
    /\ fb' = Mute(fb)
    /\ UNCHANGED FbRing
\* the main context: the next statement of the call
FbMain ==
    \/ \E exists \in BOOLEAN, ok \in BOOLEAN, len \in SourceLens : FbCall(exists, ok, len)
    \/ FbMissing \/ FbUnmute \/ FbStart \/ FbWhile \/ FbFillPush \/ FbFillReturn
    \/ FbCheckStop \/ FbCheckFinished \/ FbMute

\* the Output Consumer: one sample of an active slot popped if available
OutputPop ==
    /\ fb.pc # "idle" /\ fb.active /\ availableForRead > 0
    /\ Pop
    /\ fb' = [fb EXCEPT !.popped = fb.popped + 1]
\* a stop request for stream 0 from another context
RequestStop ==
    /\ fb.pc # "idle" /\ fb.active /\ ~fb.stopRequested
    /\ fb' = [fb EXCEPT !.stopRequested = TRUE]
    /\ UNCHANGED FbRing

InitFeedback ==
    /\ RingInit /\ buffer = [c \in Cells |-> 0]
    /\ prod = ProdIdle /\ cons = ConsIdle /\ inFlight = <<>>
    /\ adts = AdtsIdle
    /\ parser = ParserIdle /\ file = <<>> /\ mpLast = MpIdle
    /\ walk = WalkIdle
    /\ streams = <<>> /\ mp3DecoderInUse = <<>> /\ aacDecoderInUse = <<>>
    /\ stLast = [op |-> "none"]
    /\ volume = VolumeIdle /\ fs = FsIdle /\ CtlIdle
    /\ \E gate \in BOOLEAN :
          fb = [pc |-> "idle", exists |-> FALSE, startOk |-> FALSE, len |-> 0,
                g_allowAudio |-> gate, before |-> gate,
                ok |-> FALSE, active |-> FALSE, fileFinished |-> FALSE,
                stopRequested |-> FALSE, remaining |-> 0,
                pushed |-> 0, popped |-> 0, left |-> 0,
                stoppedBy |-> "none", waited |-> FALSE]

FbOthers == <<prod, cons, inFlight, adts, parser, file, mpLast, walk,
              streams, mp3DecoderInUse, aacDecoderInUse, stLast, volume, fs, ctlVars>>

NextFeedback ==
    \/ \E exists \in BOOLEAN, ok \in BOOLEAN, len \in SourceLens :
          FbCall(exists, ok, len) /\ UNCHANGED FbOthers
    \/ FbMissing /\ UNCHANGED FbOthers
    \/ FbUnmute /\ UNCHANGED FbOthers
    \/ FbStart /\ UNCHANGED FbOthers
    \/ FbWhile /\ UNCHANGED FbOthers
    \/ FbFillPush /\ UNCHANGED FbOthers
    \/ FbFillReturn /\ UNCHANGED FbOthers
    \/ FbCheckStop /\ UNCHANGED FbOthers
    \/ FbCheckFinished /\ UNCHANGED FbOthers
    \/ FbMute /\ UNCHANGED FbOthers
    \/ OutputPop /\ UNCHANGED FbOthers
    \/ RequestStop /\ UNCHANGED FbOthers

SpecFeedback == InitFeedback /\ [][NextFeedback]_vars

\* the main context keeps running and the hardware clock keeps invoking the
\* Output Consumer; stop requests are not required to arrive
SpecFeedbackFair ==
    /\ InitFeedback /\ [][NextFeedback]_vars
    /\ WF_vars(FbMain /\ UNCHANGED FbOthers)
    /\ WF_vars(OutputPop /\ UNCHANGED FbOthers)

\* C22: reaching the end of the source alone does not stop stream 0.  The
\* stop for the end of the source is issued only in a state where
\* fileFinished is set and availableForRead() is 0, and then every sample
\* pushed has been popped; a stop for stopRequested may come earlier.
ThmC22 ==
    /\ [][(fb.active /\ ~fb'.active) =>
             /\ fb.pc \in {"checkStop", "checkFinished"}
             /\ fb.pc = "checkFinished" =>
                   /\ fb'.stoppedBy = "finished"
                   /\ fb.fileFinished /\ availableForRead = 0
                   /\ fb.remaining = 0
                   /\ fb.popped = fb.pushed /\ fb.pushed = fb.len
             /\ fb.pc = "checkStop" => fb.stopRequested /\ fb'.stoppedBy = "request"]_vars
    /\ [][(fb.pc = "fill" /\ fb'.fileFinished) => fb'.active = fb.active]_vars
\* the loop has seen fileFinished with samples left in the buffer and gone
\* on; the stop came later, after the consumer had popped them all
WitC22 ==
    /\ fb.stoppedBy = "finished" /\ fb.waited
    /\ fb.len = MaxSource /\ fb.popped = MaxSource
    /\ availableForRead = 0

\* C23: for a file that exists g_allowAudio is true from before the start
\* of stream 0, stays true while stream 0 is active inside the call and is
\* false when the call returns, with stream 0 inactive, also after a failed
\* start; for a missing file the call returns with the gate as it was.
ThmC23 ==
    /\ fb.pc \in {"start", "while", "fill", "checkStop", "checkFinished", "mute"} =>
          fb.exists /\ fb.g_allowAudio
    /\ fb.active => fb.g_allowAudio
    /\ fb.pc = "returned" =>
          /\ ~fb.active
          /\ fb.exists => ~fb.g_allowAudio
          /\ ~fb.exists => fb.g_allowAudio = fb.before
\* the call has returned muted after a failed start, from a gate that was
\* open before the call
WitC23 ==
    /\ fb.pc = "returned" /\ fb.exists /\ ~fb.ok /\ fb.startOk = FALSE
    /\ fb.before /\ ~fb.g_allowAudio

\* C30: once stream 0 has started, with the main context running and the
\* Output Consumer popping whenever a sample is available, the call returns,
\* with stream 0 stopped.
ThmC30 ==
    (fb.pc = "while" /\ fb.active) ~> (fb.pc = "returned" /\ ~fb.active)
\* the call has returned after the loop waited for the consumer to drain a
\* source longer than the buffer, with no stop request
WitC30 ==
    /\ fb.pc = "returned" /\ fb.ok /\ fb.stoppedBy = "finished"
    /\ fb.len > streamBufferSize - 1 /\ fb.waited
    /\ ~fb.g_allowAudio

(***************************************************************************)
(* SpecLocks: the functions of file_management.cpp and handleCcrc of       *)
(* serial_commands.cpp as the sequences of their lock operations, device   *)
(* operations and calls, run by the main context.  A condition that        *)
(* depends on the card, the flash or the configuration is a branch taken   *)
(* either way.  A function is a sequence of                                *)
(*   <<"enter", m>>   mutex_enter_blocking(&m)                             *)
(*   <<"exit", m>>    mutex_exit(&m)                                       *)
(*   <<"sd", op>>     an operation of SdFat on the card                    *)
(*   <<"flash", op>>  an operation of LittleFS on the onboard flash        *)
(*   <<"call", f>>    a call of f                                          *)
(*   <<"if", l>>      a condition: go on, or go to label l                 *)
(*   <<"goto", l>>, <<"label", l>>, <<"return">>                           *)
(***************************************************************************)
Lock(m) == <<"enter", m>>
Unlock(m) == <<"exit", m>>
Sd(op) == <<"sd", op>>
Flash(op) == <<"flash", op>>
Call(f) == <<"call", f>>
If(l) == <<"if", l>>
Goto(l) == <<"goto", l>>
Label(l) == <<"label", l>>
Return == <<"return">>

\* bool parseIniFile()
parseIniFileCallsHolding ==
    << Lock("sd_mutex"), Sd("open"), If("closed"),
       Label("line"), If("eof"), Sd("read"), Goto("line"),
       Label("eof"), Sd("close"), Label("closed"),
       If("unlock"), Call("writeIniFile"), Label("unlock"),
       Unlock("sd_mutex"), Return >>
parseIniFile ==
    << Lock("sd_mutex"), Sd("open"), If("closed"),
       Label("line"), If("eof"), Sd("read"), Goto("line"),
       Label("eof"), Sd("close"), Label("closed"),
       Unlock("sd_mutex"),
       If("done"), Call("writeIniFile"), Label("done"), Return >>

\* void writeIniFile()
writeIniFile ==
    << Lock("sd_mutex"), Sd("open"), If("failed"), Sd("write"), Sd("close"),
       Label("failed"), Unlock("sd_mutex"), Return >>

\* void scanValidBank1Pages()
scanValidBank1Pages ==
    << Lock("sd_mutex"), Sd("open"), If("root"), Unlock("sd_mutex"), Return,
       Label("root"),
       Label("next"), Sd("openNext"), If("end"), Sd("close"), Goto("next"),
       Label("end"), Sd("close"), Unlock("sd_mutex"), Return >>

\* void scanBank1()
scanBank1 ==
    << Lock("sd_mutex"), Sd("open"), If("root"), Unlock("sd_mutex"), Return,
       Label("root"),
       Label("nextDir"), Sd("openNext"), If("end"), If("other"),
       Label("nextFile"), Sd("openNext"), If("endFiles"), Sd("close"), Goto("nextFile"),
       Label("endFiles"), Sd("close"), Goto("end"),
       Label("other"), Sd("close"), Goto("nextDir"),
       Label("end"), Sd("close"), Unlock("sd_mutex"), Return >>

\* void playVoiceFeedback(const char* filename)
playVoiceFeedback ==
    << Lock("sd_mutex"), Sd("exists"), Unlock("sd_mutex"), If("exists"), Return,
       Label("exists"), Call("startStream"), If("failed"),
       Label("while"), If("ended"), Call("fillStreamBuffers"),
       If("noStop"), Call("stopStream"), Label("noStop"),
       If("notFinished"), Call("stopStream"), Label("notFinished"),
       Goto("while"),
       Label("ended"), Label("failed"), Return >>

\* void playVoiceNumber(int number)
playVoiceNumber ==
    << If("number"), Return, Label("number"), Call("playVoiceFeedback"), Return >>

\* void playBaudFeedback(long rate)
playBaudFeedback ==
    << Call("playVoiceFeedback"), Call("playVoiceFeedback"), Call("playVoiceFeedback"),
       If("small"), Call("playVoiceNumber"), Call("playVoiceNumber"), Goto("said"),
       Label("small"), Call("playVoiceNumber"),
       Label("said"), Call("playVoiceFeedback"), Call("playVoiceFeedback"), Return >>

\* void playBankNameFeedback(char page)
playBankNameFeedback ==
    << Lock("sd_mutex"), Sd("open"), If("noRoot"),
       Label("next"), Sd("openNext"), If("end"), If("other"), Sd("close"), Goto("end"),
       Label("other"), Sd("close"), Goto("next"),
       Label("end"), Sd("close"), Label("noRoot"), Unlock("sd_mutex"),
       If("spell"), Return,
       Label("spell"), If("done"), If("letter"), Call("playVoiceNumber"), Goto("spell"),
       Label("letter"), If("spell"), Call("playVoiceFeedback"), Goto("spell"),
       Label("done"), Return >>

\* void playFirmwareUpdateFeedback(bool fwUpdated)
playFirmwareUpdateFeedback ==
    << If("updated"), Return,
       Label("updated"), Lock("sd_mutex"), Sd("exists"), Unlock("sd_mutex"),
       If("silent"),
       Call("playVoiceFeedback"), Call("playVoiceFeedback"), Call("playVoiceFeedback"),
       Call("playVoiceFeedback"), Call("playVoiceFeedback"), Call("playVoiceFeedback"),
       If("silent"),
       Call("playVoiceNumber"), Call("playVoiceNumber"), Call("playVoiceNumber"),
       Label("silent"), Return >>

\* bool syncBank1ToFlash()
syncBank1ToFlash ==
    << If("enabled"), Return, Label("enabled"), If("named"), Return, Label("named"),
       Lock("sd_mutex"), Sd("exists"), Unlock("sd_mutex"),
       Flash("exists"), If("hasDir"), Flash("mkdir"), Label("hasDir"),
       \* Pruning stale files from flash
       Flash("openDir"),
       Label("prune"), Flash("next"), If("pruned"), If("prune"), Flash("remove"),
       Goto("prune"), Label("pruned"),
       \* Count Actual Files to Sync
       Label("count"), If("counted"),
       Lock("sd_mutex"), Sd("open"), If("countClosed"),
       Flash("exists"), If("countChecked"), Flash("open"), If("countChecked"),
       Flash("close"), Label("countChecked"), Sd("close"),
       Label("countClosed"), Unlock("sd_mutex"), Goto("count"),
       Label("counted"),
       \* Voice Feedback: Start
       If("quiet"),
       Call("playVoiceFeedback"), Call("playVoiceNumber"), Call("playVoiceFeedback"),
       Call("playVoiceFeedback"), Call("playVoiceNumber"), Call("playVoiceFeedback"),
       Call("playVoiceFeedback"),
       Label("quiet"),
       \* the copy loop
       Label("copy"), If("sync_complete"), Call("updateSyncLEDs"),
       Lock("sd_mutex"), Sd("open"), If("copyClosed"),
       Flash("exists"), If("copyChecked"), Flash("open"), If("copyChecked"),
       Flash("close"), Label("copyChecked"),
       If("copied"), Call("updateSyncLEDs"), Sd("rewind"), Flash("open"), If("copied"),
       Label("chunk"), If("chunks"), Sd("read"), Call("updateSyncLEDs"), If("chunks"),
       Flash("write"), If("chunks"), Goto("chunk"),
       Label("chunks"), Flash("close"),
       Label("copied"), Sd("close"),
       Label("copyClosed"), Unlock("sd_mutex"),
       If("copy"), If("beep"), Call("playVoiceNumber"), Goto("copy"),
       Label("beep"), Call("playChirp"), Call("playChirp"), Goto("copy"),
       Label("sync_complete"), If("end"),
       Call("playVoiceFeedback"), Call("playVoiceFeedback"), Call("playVoiceFeedback"),
       Label("end"), Return >>

\* void scanSDBanks()
scanSDBanksReturnsHolding ==
    << Lock("sd_mutex"), Sd("open"), If("root"), Return,
       Label("root"),
       Label("nextDir"), Sd("openNext"), If("end"), Sd("close"), Goto("nextDir"),
       Label("end"), Sd("close"), Unlock("sd_mutex"), Return >>
scanSDBanks ==
    << Lock("sd_mutex"), Sd("open"), If("root"), Unlock("sd_mutex"), Return,
       Label("root"),
       Label("nextDir"), Sd("openNext"), If("end"), If("plain"),
       If("valid"), Sd("close"), Goto("nextDir"),
       Label("valid"), If("plain"), Sd("open"), If("noBank"),
       Label("nextFile"), Sd("openNext"), If("endFiles"), Sd("close"), Goto("nextFile"),
       Label("endFiles"), Sd("close"), Label("noBank"),
       Label("plain"), Sd("close"), Goto("nextDir"),
       Label("end"), Sd("close"), Unlock("sd_mutex"), Return >>

\* void scanRootTracks()
scanRootTracks ==
    << Lock("sd_mutex"), Sd("open"), If("root"), Unlock("sd_mutex"), Return,
       Label("root"),
       Label("next"), Sd("openNext"), If("end"), Sd("close"), Goto("next"),
       Label("end"), Sd("close"), Unlock("sd_mutex"), Return >>

\* void handleCcrc(Stream &serial)
handleCcrc ==
    << Label("stop"), If("stopped"), Call("stopStream"), Goto("stop"),
       Label("stopped"), Flash("openDir"),
       Label("next"), Flash("next"), If("end"), If("next"), Flash("remove"), Goto("next"),
       Label("end"), Return >>

\* the functions of audio_playback.cpp as the lock discipline of the
\* specification has them: a file is opened and closed with the lock of its
\* device held, the fill reads an open handle without it
OpensFile ==
    << If("flash"), Lock("sd_mutex"), Sd("open"), Unlock("sd_mutex"), Return,
       Label("flash"), Lock("flash_mutex"), Flash("open"), Unlock("flash_mutex"), Return >>
ClosesFile ==
    << If("none"), If("flash"), Lock("sd_mutex"), Sd("close"), Unlock("sd_mutex"), Return,
       Label("flash"), Lock("flash_mutex"), Flash("close"), Unlock("flash_mutex"), Return,
       Label("none"), Return >>
NoDevice == << Return >>

CodeOf(f) ==
    CASE f = "parseIniFile" -> parseIniFile
      [] f = "writeIniFile" -> writeIniFile
      [] f = "scanValidBank1Pages" -> scanValidBank1Pages
      [] f = "scanBank1" -> scanBank1
      [] f = "playVoiceFeedback" -> playVoiceFeedback
      [] f = "playVoiceNumber" -> playVoiceNumber
      [] f = "playBaudFeedback" -> playBaudFeedback
      [] f = "playBankNameFeedback" -> playBankNameFeedback
      [] f = "playFirmwareUpdateFeedback" -> playFirmwareUpdateFeedback
      [] f = "syncBank1ToFlash" -> syncBank1ToFlash
      [] f = "scanSDBanks" -> scanSDBanks
      [] f = "scanRootTracks" -> scanRootTracks
      [] f = "handleCcrc" -> handleCcrc
      [] f = "startStream" -> OpensFile
      [] f = "stopStream" -> ClosesFile
      [] f \in {"fillStreamBuffers", "updateSyncLEDs", "playChirp"} -> NoDevice

\* the functions the main context calls with no lock held
EntryPoints ==
    {"parseIniFile", "writeIniFile", "scanValidBank1Pages", "scanBank1",
     "playVoiceFeedback", "playBaudFeedback", "playBankNameFeedback",
     "playFirmwareUpdateFeedback", "syncBank1ToFlash", "scanSDBanks",
     "scanRootTracks", "handleCcrc"}
\* the functions of file_management.cpp that acquire sd_mutex themselves
SdFunctions ==
    {"parseIniFile", "writeIniFile", "scanValidBank1Pages", "scanBank1",
     "playVoiceFeedback", "playBankNameFeedback", "playFirmwareUpdateFeedback",
     "syncBank1ToFlash", "scanSDBanks", "scanRootTracks"}

\* the frame that runs, its code and the instruction it is at
Top == fs.stack[Len(fs.stack)]
Running == Len(fs.stack) > 0 /\ ~fs.stuck
At == CodeOf(Top.fn)[Top.pc]
LabelAt(code, l) == CHOOSE i \in 1 .. Len(code) : code[i] = Label(l)
\* the step taken: what it was, in which function and where, with which
\* locks held before it
Stepped(kind, what) ==
    [kind |-> kind, what |-> what, fn |-> Top.fn, at |-> Top.pc, held |-> fs.held,
     depth |-> Len(fs.stack)]
MoveTo(pc) == [fs.stack EXCEPT ![Len(fs.stack)].pc = pc]

\* a call from the main loop
Invoke(f) ==
    /\ fs.stack = <<>> /\ ~fs.stuck
    /\ fs' = [fs EXCEPT !.stack = <<[fn |-> f, pc |-> 1]>>,
                        !.last = [kind |-> "invoke", what |-> f, fn |-> f, at |-> 0,
                                  held |-> fs.held, depth |-> 0]]
\* mutex_enter_blocking: a lock the context holds already never comes free
EnterStep ==
    /\ Running /\ At[1] = "enter"
    /\ fs' = IF At[2] \in fs.held
             THEN [fs EXCEPT !.stuck = TRUE, !.last = Stepped("enter", At[2])]
             ELSE [fs EXCEPT !.held = fs.held \cup {At[2]}, !.stack = MoveTo(Top.pc + 1),
                             !.last = Stepped("enter", At[2])]
\* mutex_exit
ExitStep ==
    /\ Running /\ At[1] = "exit"
    /\ fs' = [fs EXCEPT !.held = fs.held \ {At[2]}, !.stack = MoveTo(Top.pc + 1),
                        !.last = Stepped("exit", At[2])]
\* an operation on the card or on the flash
DeviceStep ==
    /\ Running /\ At[1] \in {"sd", "flash"}
    /\ fs' = [fs EXCEPT !.stack = MoveTo(Top.pc + 1), !.last = Stepped(At[1], At[2])]
CallStep ==
    /\ Running /\ At[1] = "call"
    /\ fs' = [fs EXCEPT !.stack = Append(MoveTo(Top.pc + 1), [fn |-> At[2], pc |-> 1]),
                        !.last = Stepped("call", At[2])]
\* a condition, either way
IfStep(taken) ==
    /\ Running /\ At[1] = "if"
    /\ fs' = [fs EXCEPT !.stack = MoveTo(IF taken THEN LabelAt(CodeOf(Top.fn), At[2])
                                          ELSE Top.pc + 1),
                        !.last = Stepped("if", At[2])]
GotoStep ==
    /\ Running /\ At[1] \in {"goto", "label"}
    /\ fs' = [fs EXCEPT !.stack = MoveTo(IF At[1] = "goto"
                                          THEN LabelAt(CodeOf(Top.fn), At[2])
                                          ELSE Top.pc + 1),
                        !.last = Stepped(At[1], At[2])]
ReturnStep ==
    /\ Running /\ At[1] = "return"
    /\ fs' = [fs EXCEPT !.stack = SubSeq(fs.stack, 1, Len(fs.stack) - 1),
                        !.last = Stepped("return", Top.fn)]

InitLocks ==
    /\ RingInit /\ buffer = [c \in Cells |-> 0]
    /\ prod = ProdIdle /\ cons = ConsIdle /\ inFlight = <<>>
    /\ adts = AdtsIdle
    /\ parser = ParserIdle /\ file = <<>> /\ mpLast = MpIdle
    /\ walk = WalkIdle
    /\ streams = <<>> /\ mp3DecoderInUse = <<>> /\ aacDecoderInUse = <<>>
    /\ stLast = [op |-> "none"]
    /\ volume = VolumeIdle /\ fb = FbIdle /\ CtlIdle
    /\ fs = [stack |-> <<>>, held |-> {}, stuck |-> FALSE,
             last |-> [kind |-> "none", what |-> "none", fn |-> "none", at |-> 0,
                       held |-> {}, depth |-> 0]]

LockOthers == <<rbVars, histVars, spscVars, adts, mp4Vars, walk,
                streams, mp3DecoderInUse, aacDecoderInUse, stLast, volume, fb, ctlVars>>

NextLocks ==
    \/ \E f \in EntryPoints : Invoke(f) /\ UNCHANGED LockOthers
    \/ EnterStep /\ UNCHANGED LockOthers
    \/ ExitStep /\ UNCHANGED LockOthers
    \/ DeviceStep /\ UNCHANGED LockOthers
    \/ CallStep /\ UNCHANGED LockOthers
    \/ \E taken \in BOOLEAN : IfStep(taken) /\ UNCHANGED LockOthers
    \/ GotoStep /\ UNCHANGED LockOthers
    \/ ReturnStep /\ UNCHANGED LockOthers

SpecLocks == InitLocks /\ [][NextLocks]_vars

\* C24 as stated: every operation on the onboard flash in syncBank1ToFlash
\* and in handleCcrc is executed while flash_mutex is held.
OrigC24 ==
    (fs.last.kind = "flash" /\ fs.last.fn \in {"syncBank1ToFlash", "handleCcrc"}) =>
        "flash_mutex" \in fs.last.held

\* C25: every function that acquires sd_mutex has released it when it
\* returns, on every path, the early returns for a root directory that does
\* not open included; the main context holds no lock between calls.
ThmC25 ==
    /\ (fs.last.kind = "return" /\ fs.last.fn \in SdFunctions) =>
          "sd_mutex" \notin fs.last.held
    /\ fs.stack = <<>> => fs.held = {}
    /\ fs.last.kind = "exit" => fs.last.what \in fs.last.held
\* scanSDBanks has returned from its early return, after it had acquired
\* the lock and the root directory did not open
WitC25 ==
    /\ fs.last.kind = "return" /\ fs.last.fn = "scanSDBanks"
    /\ fs.last.at = 5
    /\ fs.stack = <<>> /\ fs.held = {}

\* C29: the main context never enters a lock it holds, directly or through
\* a callee: every mutex_enter_blocking finds the lock free, and nothing is
\* held when parseIniFile calls writeIniFile or when syncBank1ToFlash calls
\* playVoiceNumber or playVoiceFeedback.
ThmC29 ==
    /\ ~fs.stuck
    /\ fs.last.kind = "enter" => fs.last.what \notin fs.last.held
    /\ (fs.last.kind = "call"
          /\ fs.last.what \in {"writeIniFile", "playVoiceNumber", "playVoiceFeedback"}) =>
          fs.last.held = {}
\* writeIniFile, called by parseIniFile, has acquired sd_mutex
WitC29 ==
    /\ fs.last.kind = "enter" /\ fs.last.what = "sd_mutex"
    /\ fs.last.fn = "writeIniFile" /\ fs.last.depth = 2
    /\ fs.stack[1].fn = "parseIniFile"
    /\ fs.held = {"sd_mutex"}


(***************************************************************************)
(* SpecMsc: mass-storage mode (msc_interface.cpp) next to the commands     *)
(* that start streams and rewrite CHIRP.INI.  msc holds g_mscActive, the   *)
(* level of the trigger pin, pollMSCTrigger's static pinWasActive and, as  *)
(* history, who started the running session and what the last call did.    *)
(***************************************************************************)
\* the bound of the loop of startMSC
MAX_STREAMS == maxStreams
\* the stream types startMSC compares with
StoppedTypes == {"STREAM_TYPE_WAV_SD", "STREAM_TYPE_MP3_SD"}
\* the stream types whose source is the card (enum StreamType)
SdTypes == {"STREAM_TYPE_WAV_SD", "STREAM_TYPE_MP3_SD",
            "STREAM_TYPE_AAC_SD", "STREAM_TYPE_M4A_SD"}
\* for (int i = 0; i < MAX_STREAMS; i++) if (active && type is ...) stopStream(i)
RECURSIVE StopSdStreams(_, _)
StopSdStreams(st, i) ==
    IF i >= MAX_STREAMS THEN st
    ELSE StopSdStreams(IF st.streams[i].active /\ st.streams[i].type \in StoppedTypes
                       THEN stopStream(st, i) ELSE st, i + 1)
\* void startMSC(): begin is the result of usb_msc.begin()
startMSC(m, st, begin) ==
    IF m.g_mscActive THEN [m |-> m, st |-> st, ran |-> FALSE]
    ELSE [m |-> [m EXCEPT !.g_mscActive = begin], st |-> StopSdStreams(st, 0), ran |-> TRUE]
\* void stopMSC()
stopMSC(m) ==
    IF ~m.g_mscActive THEN [m |-> m, ran |-> FALSE]
    ELSE [m |-> [m EXCEPT !.g_mscActive = FALSE], ran |-> TRUE]
\* does writeIniFile operate on the card
WritesCard == \E i \in 1 .. Len(writeIniFile) : writeIniFile[i][1] = "sd"

NoSession == [by |-> "none", pin |-> FALSE]
\* the history of a call: the session after it and what it did
MscDid(m, op, by, started, stopped, card) ==
    [m EXCEPT !.session = IF started /\ m.g_mscActive THEN [by |-> by, pin |-> msc.pin]
                          ELSE IF m.g_mscActive THEN msc.session ELSE NoSession,
              !.last = [op |-> op, started |-> started, stopped |-> stopped,
                        card |-> card, active |-> msc.g_mscActive,
                        session |-> msc.session, pin |-> msc.pin]]
MscSets(r, op, by, stopped) ==
    /\ msc' = MscDid(r.m, op, by, r.ran, stopped, FALSE)
    /\ streams' = r.st.streams
    /\ mp3DecoderInUse' = r.st.mp3
    /\ aacDecoderInUse' = r.st.aac

\* the jumper on PIN_MSC_TRIGGER is set or removed
SetJumper ==
    /\ msc' = MscDid([msc EXCEPT !.pin = ~msc.pin], "jumper", "none", FALSE, FALSE, FALSE)
    /\ UNCHANGED <<streams, mp3DecoderInUse, aacDecoderInUse>>
\* void pollMSCTrigger(): due is false during the first 3000 ms and within
\* 200 ms of the last check
PollMSCTrigger(due, begin) ==
    IF ~due
    THEN /\ msc' = MscDid(msc, "poll", "none", FALSE, FALSE, FALSE)
         /\ UNCHANGED <<streams, mp3DecoderInUse, aacDecoderInUse>>
    ELSE IF msc.pin /\ ~msc.g_mscActive
    THEN \E r \in {startMSC(msc, StreamState, begin)} :
            MscSets([r EXCEPT !.m.pinWasActive = TRUE], "poll", "jumper", FALSE)
    ELSE IF ~msc.pin /\ msc.g_mscActive /\ msc.pinWasActive
    THEN \E r \in {stopMSC(msc)} :
            /\ msc' = MscDid([r.m EXCEPT !.pinWasActive = FALSE], "poll", "none",
                             FALSE, r.ran, FALSE)
            /\ UNCHANGED <<streams, mp3DecoderInUse, aacDecoderInUse>>
    ELSE /\ msc' = MscDid(msc, "poll", "none", FALSE, FALSE, FALSE)
         /\ UNCHANGED <<streams, mp3DecoderInUse, aacDecoderInUse>>
\* void handleMusb(Stream &serial, char* args): "MUSB:1", "MUSB:0", "MUSB"
HandleMusb(args, begin) ==
    IF (args = "1") \/ (args = "" /\ ~msc.g_mscActive)
    THEN \E r \in {startMSC(msc, StreamState, begin)} : MscSets(r, "MUSB", "serial", FALSE)
    ELSE \E r \in {stopMSC(msc)} :
            /\ msc' = MscDid(r.m, "MUSB", "none", FALSE, r.ran, FALSE)
            /\ UNCHANGED <<streams, mp3DecoderInUse, aacDecoderInUse>>
\* void handleBaud / void handleBpage: valid is the check of the argument
HandleIni(op, valid) ==
    /\ msc' = MscDid(msc, op, "none", FALSE, FALSE, valid /\ WritesCard)
    /\ UNCHANGED <<streams, mp3DecoderInUse, aacDecoderInUse>>
\* PLAY next to mass-storage mode
MscPlay(format, isFlash) ==
    /\ HandlePlay(format, isFlash, TRUE, -1)
    /\ msc' = MscDid(msc, "PLAY", "none", FALSE, FALSE, FALSE)

\* the sources played in SpecMsc: two the loop of startMSC names, one it
\* does not, one on flash
MscSources == {<<"FORMAT_WAV", FALSE>>, <<"FORMAT_MP3", FALSE>>,
               <<"FORMAT_M4A", FALSE>>, <<"FORMAT_WAV", TRUE>>}

InitMsc ==
    /\ RingInit /\ buffer = [c \in Cells |-> 0]
    /\ prod = ProdIdle /\ cons = ConsIdle /\ inFlight = <<>>
    /\ adts = AdtsIdle
    /\ parser = ParserIdle /\ file = <<>> /\ mpLast = MpIdle
    /\ walk = WalkIdle
    /\ streams = [i \in Slots |-> InactiveStream]
    /\ mp3DecoderInUse = [i \in 0 .. maxMp3Decoders - 1 |-> FALSE]
    /\ aacDecoderInUse = [i \in 0 .. maxAacDecoders - 1 |-> FALSE]
    /\ stLast = [op |-> "none", streamIdx |-> 0, format |-> "none", ok |-> TRUE,
                 ret |-> TRUE, prior |-> InactiveStream, after |-> NoDecoder, arg |-> -1]
    /\ volume = VolumeIdle /\ fb = FbIdle /\ fs = FsIdle
    /\ cmd = <<>> /\ sounds = <<>> /\ twin = <<>>
    /\ msc = [g_mscActive |-> FALSE, pin |-> FALSE, pinWasActive |-> FALSE,
              session |-> NoSession,
              last |-> [op |-> "none", started |-> FALSE, stopped |-> FALSE,
                        card |-> FALSE, active |-> FALSE, session |-> NoSession,
                        pin |-> FALSE]]

MscOthers == <<rbVars, histVars, spscVars, adts, mp4Vars, walk, volume, fb, fs,
               cmd, sounds, twin>>

NextMsc ==
    \/ SetJumper /\ UNCHANGED <<MscOthers, stLast>>
    \/ \E due \in BOOLEAN, begin \in BOOLEAN :
          PollMSCTrigger(due, begin) /\ UNCHANGED <<MscOthers, stLast>>
    \/ \E args \in {"", "1", "0"}, begin \in BOOLEAN :
          HandleMusb(args, begin) /\ UNCHANGED <<MscOthers, stLast>>
    \/ \E op \in {"BAUD", "BPAGE"}, valid \in BOOLEAN :
          HandleIni(op, valid) /\ UNCHANGED <<MscOthers, stLast>>
    \/ \E source \in MscSources :
          MscPlay(source[1], source[2]) /\ UNCHANGED <<rbVars, histVars, spscVars, adts,
                                                        mp4Vars, walk, fb, fs, cmd, sounds, twin>>

SpecMsc == InitMsc /\ [][NextMsc]_vars

\* C31 as stated: when startMSC has run and g_mscActive is true, no active
\* stream has a source on the card (WAV_SD, MP3_SD, AAC_SD, M4A_SD).
OrigC31 ==
    (msc.last.started /\ msc.g_mscActive) =>
        \A i \in Slots : ~(streams[i].active /\ streams[i].type \in SdTypes)

\* C32 as stated: no command handler operates on the card while
\* g_mscActive is true; BAUD and BPAGE do not call writeIniFile then.
OrigC32 ==
    ~(msc.last.op \in {"BAUD", "BPAGE"} /\ msc.last.active /\ msc.last.card)

\* C33 as stated: pollMSCTrigger never stops a session that a serial MUSB
\* command started while the jumper was absent.
OrigC33 ==
    ~(msc.last.op = "poll" /\ msc.last.stopped
        /\ msc.last.session = [by |-> "serial", pin |-> FALSE])


(***************************************************************************)
(* SpecSerial: processSerialCommands (serial_commands.cpp) called for the  *)
(* USB port and for the UART in any order.  cmd holds the four statics     *)
(* (usbCmdBuffer, usbCmdPos, uartCmdBuffer, uartCmdPos), the bytes each    *)
(* port has still to deliver and, as history, the last byte processed.  A  *)
(* cell of a buffer holds the byte and, as history, the port it came from. *)
(* A call that finds k bytes available does what k calls that find one     *)
(* byte do, so an action is a call with one byte available.                *)
(***************************************************************************)
CmdBufferSize == 6           \* sizeof(usbCmdBuffer), 128 in the source
Ports == {"usb", "uart"}     \* &Serial, &Serial2
NoByte == [c |-> "\\0", from |-> "none"]

\* the prefixes and the names of the dispatch chain, in its order; exact
\* is strcmp, otherwise strncmp over the length of the prefix
Commands ==
    << [name |-> "handlePlay",   text |-> <<"P", "L", "A", "Y", ":">>,      exact |-> FALSE],
       [name |-> "handleStop",   text |-> <<"S", "T", "O", "P">>,           exact |-> FALSE],
       [name |-> "handleChirp",  text |-> <<"C", "H", "R", "P", ":">>,      exact |-> FALSE],
       [name |-> "handleVolume", text |-> <<"V", "O", "L", ":">>,           exact |-> FALSE],
       [name |-> "handleList",   text |-> <<"L", "I", "S", "T">>,           exact |-> TRUE],
       [name |-> "handleGman",   text |-> <<"G", "M", "A", "N">>,           exact |-> TRUE],
       [name |-> "handleGnme",   text |-> <<"G", "N", "M", "E", ":">>,      exact |-> FALSE],
       [name |-> "handleCcrc",   text |-> <<"C", "C", "R", "C">>,           exact |-> TRUE],
       [name |-> "handleStat",   text |-> <<"S", "T", "A", "T", ":">>,      exact |-> FALSE],
       [name |-> "handleBaud",   text |-> <<"B", "A", "U", "D", ":">>,      exact |-> FALSE],
       [name |-> "handleBpage",  text |-> <<"B", "P", "A", "G", "E", ":">>, exact |-> FALSE],
       [name |-> "handleMusb",   text |-> <<"M", "U", "S", "B">>,           exact |-> FALSE] >>
\* strncmp(cmdBuffer, text, n) == 0 and strcmp(cmdBuffer, text) == 0 on the
\* characters before the terminator
Matches(line, command) ==
    /\ Len(line) >= Len(command.text)
    /\ command.exact => Len(line) = Len(command.text)
    /\ \A i \in 1 .. Len(command.text) : line[i] = command.text[i]
\* the handlers a line reaches when every matching branch is taken
DispatchEveryMatch(line) ==
    {Commands[i].name : i \in {j \in 1 .. Len(Commands) : Matches(line, Commands[j])}}
\* the if / else if chain: the first branch that matches, or none
\* (serial.println("ERR:UNKNOWN"))
Dispatch(line) ==
    IF \E i \in 1 .. Len(Commands) : Matches(line, Commands[i])
    THEN {Commands[CHOOSE i \in 1 .. Len(Commands) :
                      /\ Matches(line, Commands[i])
                      /\ \A j \in 1 .. i - 1 : ~Matches(line, Commands[j])].name}
    ELSE {}
\* cmdBuffer and cmdPosPtr: the statics the call works on
OwnBufferShared(port) == "usb"
OwnBuffer(port) == port
\* the characters of a buffer before position pos
LineOf(cells, pos) == [i \in 1 .. pos |-> cells[i - 1].c]

\* one iteration of while (serial.available()) for the byte c; compat is
\* the result of checkAndHandleMp3Command, called only if cmdPos == 0
ProcessByte(port, compat) ==
    /\ cmd.input[port] # <<>>
    /\ compat => cmd.pos[OwnBuffer(port)] = 0
    /\ \E c \in {Head(cmd.input[port])}, own \in {OwnBuffer(port)} :
       \E cmdPos \in {cmd.pos[own]} :
          cmd' =
            IF compat
            THEN [cmd EXCEPT !.input[port] = Tail(@),
                             !.last = [port |-> port, c |-> c, kind |-> "compat",
                                       handlers |-> {}, unknown |-> FALSE,
                                       cells |-> <<>>, before |-> cmd.pos]]
            ELSE IF c \in {"\n", "\r"}
            THEN IF cmdPos > 0
                 THEN [cmd EXCEPT !.input[port] = Tail(@),
                                  !.buf[own][cmdPos] = [c |-> "\\0", from |-> port],
                                  !.pos[own] = 0,
                                  !.last = [port |-> port, c |-> c, kind |-> "line",
                                            handlers |-> Dispatch(LineOf(cmd.buf[own], cmdPos)),
                                            unknown |-> Dispatch(LineOf(cmd.buf[own], cmdPos)) = {},
                                            cells |-> [i \in 1 .. cmdPos |-> cmd.buf[own][i - 1]],
                                            before |-> cmd.pos]]
                 ELSE [cmd EXCEPT !.input[port] = Tail(@),
                                  !.last = [port |-> port, c |-> c, kind |-> "empty",
                                            handlers |-> {}, unknown |-> FALSE,
                                            cells |-> <<>>, before |-> cmd.pos]]
            ELSE IF cmdPos < CmdBufferSize - 1
            THEN [cmd EXCEPT !.input[port] = Tail(@),
                             !.buf[own][cmdPos] = [c |-> c, from |-> port],
                             !.pos[own] = cmdPos + 1,
                             !.last = [port |-> port, c |-> c, kind |-> "stored",
                                       handlers |-> {}, unknown |-> FALSE,
                                       cells |-> <<>>, before |-> cmd.pos]]
            ELSE [cmd EXCEPT !.input[port] = Tail(@),
                             !.last = [port |-> port, c |-> c, kind |-> "dropped",
                                       handlers |-> {}, unknown |-> FALSE,
                                       cells |-> <<>>, before |-> cmd.pos]]

\* what a host sends: commands, an unknown line, an empty line, a line
\* longer than the buffer
TooLong == [i \in 1 .. CmdBufferSize + 1 |-> "A"] \o <<"\n">>
Scripts ==
    { <<"S", "T", "O", "P", "\n">>,
      <<"S", "T", "A", "T", ":", "\r", "\n">>,
      <<"X", "Y", "\n", "L", "I", "S", "T", "\n">>,
      TooLong }

InitSerial ==
    /\ RingInit /\ buffer = [c \in Cells |-> 0]
    /\ prod = ProdIdle /\ cons = ConsIdle /\ inFlight = <<>>
    /\ adts = AdtsIdle
    /\ parser = ParserIdle /\ file = <<>> /\ mpLast = MpIdle
    /\ walk = WalkIdle
    /\ streams = <<>> /\ mp3DecoderInUse = <<>> /\ aacDecoderInUse = <<>>
    /\ stLast = [op |-> "none"]
    /\ volume = VolumeIdle /\ fb = FbIdle /\ fs = FsIdle
    /\ msc = <<>> /\ sounds = <<>> /\ twin = <<>>
    /\ \E input \in [Ports -> Scripts] :
        cmd = [buf |-> [p \in Ports |-> [i \in 0 .. CmdBufferSize - 1 |-> NoByte]],
              pos |-> [p \in Ports |-> 0],
              input |-> input,
              last |-> [port |-> "none", c |-> "", kind |-> "none", handlers |-> {},
                        unknown |-> FALSE, cells |-> <<>>,
                        before |-> [p \in Ports |-> 0]]]

SerialOthers == <<rbVars, histVars, spscVars, adts, mp4Vars, walk,
                  streams, mp3DecoderInUse, aacDecoderInUse, stLast, volume, fb, fs,
                  msc, sounds, twin>>

NextSerial ==
    \E port \in Ports, compat \in BOOLEAN :
        ProcessByte(port, compat) /\ UNCHANGED SerialOthers

SpecSerial == InitSerial /\ [][NextSerial]_vars

OtherPort(port) == IF port = "usb" THEN "uart" ELSE "usb"
\* what C34 says of the positions and of the bytes of a dispatched line
PortsApart ==
    /\ \A p \in Ports : cmd.pos[p] \in 0 .. CmdBufferSize - 1
    /\ \A i \in 1 .. Len(cmd.last.cells) : cmd.last.cells[i].from = cmd.last.port
    /\ cmd.last.kind = "line" =>
          /\ cmd.last.before[cmd.last.port] > 0
          /\ cmd.pos[cmd.last.port] = 0
          /\ cmd.pos[OtherPort(cmd.last.port)] = cmd.last.before[OtherPort(cmd.last.port)]
    /\ cmd.last.kind # "line" => cmd.last.handlers = {}

\* C34 as stated: positions in [0, 127], no byte of the other port in a
\* dispatched line, and every completed non-empty line dispatches exactly
\* one handler and resets only its own port's position.
OrigC34 ==
    /\ PortsApart
    /\ cmd.last.kind = "line" => Cardinality(cmd.last.handlers) = 1

\* C34, amended: as stated, except that a completed non-empty line takes
\* exactly one branch of the dispatch chain: one handler if it begins with
\* a known command, and otherwise no handler but the reply ERR:UNKNOWN.
ThmC34 ==
    /\ PortsApart
    /\ cmd.last.kind = "line" =>
          /\ Cardinality(cmd.last.handlers) <= 1
          /\ cmd.last.unknown <=> cmd.last.handlers = {}
          /\ cmd.last.handlers = {} <=>
                \A i \in 1 .. Len(Commands) :
                    ~Matches([j \in 1 .. Len(cmd.last.cells) |-> cmd.last.cells[j].c],
                             Commands[i])
\* the UART completes STAT: and dispatches handleStat while the USB port
\* is in the middle of a line
WitC34 ==
    /\ cmd.last.kind = "line" /\ cmd.last.port = "uart"
    /\ cmd.last.handlers = {"handleStat"}
    /\ cmd.pos["usb"] > 0 /\ cmd.pos["uart"] = 0


(***************************************************************************)
(* SpecVariant: the choice of a variant of a bank-1 sound in handlePlay    *)
(* (serial_commands.cpp 123-139).  sounds holds bank1Sounds (variantCount  *)
(* and lastVariantPlayed of every sound, as scanBank1 leaves them) and, as *)
(* history, the variant each sound's previous request selected and the     *)
(* last request.                                                           *)
(***************************************************************************)
MaxVariants == 4             \* variants of a sound, at most 25 in the source
MaxSounds == 2               \* bank1SoundCount
NeverPlayed == -1            \* lastVariantPlayed after scanBank1

\* long random(long max): any value of 0 .. max - 1
Random(max) == 0 .. max - 1
\* the variant for the value r of random(sound.variantCount)
PickVariantRepeats(sound, r) == IF sound.variantCount = 1 THEN 0 ELSE r
PickVariant(sound, r) ==
    IF sound.variantCount = 1 THEN 0
    ELSE IF r = sound.lastVariantPlayed THEN (r + 1) % sound.variantCount
    ELSE r
\* PLAY:index with bank 1 (the default) and a stream slot at hand
PlayBank1(index) ==
    IF index >= 1 /\ index <= MaxSounds
    THEN \E r \in Random(sounds.bank1Sounds[index].variantCount) :
         \E variantIdx \in {PickVariant(sounds.bank1Sounds[index], r)} :
            sounds' = [sounds EXCEPT
                         !.bank1Sounds[index].lastVariantPlayed = variantIdx,
                         !.selected[index] = variantIdx,
                         !.last = [index |-> index, picked |-> TRUE, r |-> r,
                                   variantIdx |-> variantIdx,
                                   previous |-> sounds.selected[index]]]
    ELSE sounds' = [sounds EXCEPT
                      !.last = [index |-> index, picked |-> FALSE, r |-> 0,
                                variantIdx |-> NeverPlayed, previous |-> NeverPlayed]]

InitVariant ==
    /\ RingInit /\ buffer = [c \in Cells |-> 0]
    /\ prod = ProdIdle /\ cons = ConsIdle /\ inFlight = <<>>
    /\ adts = AdtsIdle
    /\ parser = ParserIdle /\ file = <<>> /\ mpLast = MpIdle
    /\ walk = WalkIdle
    /\ streams = <<>> /\ mp3DecoderInUse = <<>> /\ aacDecoderInUse = <<>>
    /\ stLast = [op |-> "none"]
    /\ volume = VolumeIdle /\ fb = FbIdle /\ fs = FsIdle
    /\ msc = <<>> /\ cmd = <<>> /\ twin = <<>>
    /\ \E counts \in [1 .. MaxSounds -> 1 .. MaxVariants] :
          sounds = [bank1Sounds |-> [i \in 1 .. MaxSounds |->
                                        [variantCount |-> counts[i],
                                         lastVariantPlayed |-> NeverPlayed]],
                    selected |-> [i \in 1 .. MaxSounds |-> NeverPlayed],
                    last |-> [index |-> 0, picked |-> FALSE, r |-> 0,
                              variantIdx |-> NeverPlayed, previous |-> NeverPlayed]]

NextVariant ==
    \E index \in 0 .. MaxSounds + 1 :
        PlayBank1(index) /\ UNCHANGED <<rbVars, histVars, spscVars, adts, mp4Vars, walk,
                                        streams, mp3DecoderInUse, aacDecoderInUse, stLast,
                                        volume, fb, fs, msc, cmd, twin>>

SpecVariant == InitVariant /\ [][NextVariant]_vars

\* C35: a request of a bank-1 sound selects a variant in [0, variantCount),
\* and, if the sound has at least two variants, never the variant that the
\* previous request of the same sound selected, whatever random returns.
ThmC35 ==
    sounds.last.picked =>
        /\ sounds.last.variantIdx \in
              0 .. sounds.bank1Sounds[sounds.last.index].variantCount - 1
        /\ sounds.bank1Sounds[sounds.last.index].variantCount >= 2 =>
              sounds.last.variantIdx # sounds.last.previous
\* random returned the variant of the previous request of the sound, and
\* the request selected the next one
WitC35 ==
    /\ sounds.last.picked
    /\ sounds.bank1Sounds[sounds.last.index].variantCount >= 2
    /\ sounds.last.previous # NeverPlayed
    /\ sounds.last.r = sounds.last.previous
    /\ sounds.last.variantIdx = (sounds.last.r + 1) % sounds.bank1Sounds[sounds.last.index].variantCount
    /\ sounds.last.variantIdx # sounds.last.previous


(***************************************************************************)
(* SpecMp4Tables: one open and the reads after it, on files whose index    *)
(* tables do not agree with each other: a sample size table that declares  *)
(* frames of 2^32 - 7 bytes, and sample size tables that count more        *)
(* samples than the chunks of the chunk tables hold.                       *)
(***************************************************************************)
TableConfigs ==
    { Mp4File(<<AudioTrack>>, 3, 2, SharedSize),
      [Mp4File(<<AudioTrack>>, 2, 1, SharedSize) EXCEPT !.stszSize = -7],
      [Mp4File(<<AudioTrack>>, 2, 1, SharedSize) EXCEPT !.T = 3],
      [Mp4File(<<AudioTrack>>, 4, 2, 0) EXCEPT !.T = 5] }
TableFiles == {FileOf(cfg) : cfg \in TableConfigs}

NextMp4Tables ==
    \/ \E fl \in TableFiles, isFlash \in BOOLEAN :
          /\ mpLast.opens = 0
          /\ Open(fl, isFlash)
          /\ UNCHANGED <<rbVars, histVars, spscVars, adts, walk, streamVars>>
    \/ \E bufferSize \in BufferSizes :
          ReadNextFrame(bufferSize) /\ UNCHANGED <<rbVars, histVars, spscVars, adts, walk, streamVars>>

SpecMp4Tables == InitMp4 /\ [][NextMp4Tables]_vars

\* C36 as stated: a readNextFrame that returns 0 leaves the cursor where it
\* was (here: the current sample is the one the call started at).
OrigC36 ==
    (mpLast.op = "read" /\ mpLast.openOk /\ mpLast.ret = 0) =>
        parser.currentSample = mpLast.sample

\* C37 as stated: readNextFrame writes at most bufferSize bytes, and a
\* frame size whose sum with 7 overflows 32 bits is rejected: the call
\* returns 0 and reads nothing into the buffer.
OrigC37 ==
    (mpLast.op = "read" /\ mpLast.sized) =>
        /\ mpLast.wrote <= mpLast.bufferSize
        /\ (mpLast.frameSize < 0 /\ mpLast.frameSize + 7 >= 0) =>
              (mpLast.ret = 0 /\ mpLast.wrote = 0)

\* the samples the chunks of the chunk tables hold, and where the tables
\* put the first byte of sample i (counted from 0)
SamplesCovered(cfg) == SamplesBefore(cfg, cfg.chunks)
SampleAt(cfg, i) ==
    FrameStart(cfg, i)
      + ChunkGap * (CHOOSE c \in 0 .. cfg.chunks - 1 :
                       SamplesBefore(cfg, c) <= i /\ i < SamplesBefore(cfg, c + 1))
\* C38 as stated: on an accepted file readNextFrame reads no chunk offset
\* entry at or beyond the entry count of the table (the entry read last is
\* currentChunk - 1), and a returned frame's payload starts where the
\* tables put a frame.
OrigC38 ==
    (mpLast.op = "read" /\ mpLast.openOk) =>
        /\ parser.currentChunk - 1 < file.id.chunks
        /\ mpLast.ret > 7 =>
              mpLast.at \in {SampleAt(file.id, i) : i \in 0 .. SamplesCovered(file.id) - 1}

(***************************************************************************)
(* SpecMp4Twin: a parser that is opened again and a freshly constructed    *)
(* one side by side.  Every open of the parser is also made by a new       *)
(* MP4Parser (constructor, mp4_parser.cpp 7-17, then open, 55-160) on the  *)
(* same file, and every readNextFrame is made by both.  twin holds the     *)
(* fresh parser, its file handle and what its last call returned.          *)
(***************************************************************************)
Fresh(a, b, c, d) ==
    [p |-> Constructed(a, b, c, d),
     f |-> [open |-> FALSE, id |-> MissingFile, bytes |-> <<>>, pos |-> 0],
     openOk |-> FALSE, ret |-> 0, at |-> 0, header |-> NoHeader]

TwinMachine(t, g) == [p |-> t.p, f |-> t.f, g |-> g, isAudio |-> FALSE, short |-> FALSE]

OpenBoth(fl, isFlash) ==
    /\ Open(fl, isFlash)
    /\ \E a \in UninitWords, b \in UninitWords, c \in UninitWords, d \in UninitWords :
          \E t0 \in {open(TwinMachine(Fresh(a, b, c, d), 0), fl, isFlash)} :
             \E g \in Garbage(t0.m.short) :
                \E t \in {IF g = 0 THEN t0
                          ELSE open(TwinMachine(Fresh(a, b, c, d), g), fl, isFlash)} :
                   twin' = [Fresh(a, b, c, d) EXCEPT !.p = t.m.p, !.f = t.m.f,
                                                     !.openOk = t.ret]

ReadBoth(bufferSize) ==
    /\ ReadNextFrame(bufferSize)
    /\ \E t0 \in {readNextFrame(TwinMachine(twin, 0), bufferSize)} :
          \E g \in Garbage(t0.m.short) :
             \E t \in {IF g = 0 THEN t0
                       ELSE readNextFrame(TwinMachine(twin, g), bufferSize)} :
                twin' = [twin EXCEPT !.p = t.m.p, !.f = t.m.f, !.ret = t.ret,
                                     !.at = t.at, !.header = t.header]

InitMp4Twin ==
    /\ RingInit /\ buffer = [c \in Cells |-> 0]
    /\ prod = ProdIdle /\ cons = ConsIdle /\ inFlight = <<>>
    /\ adts = AdtsIdle
    /\ \E a \in UninitWords, b \in UninitWords, c \in UninitWords, d \in UninitWords :
          /\ parser = Constructed(a, b, c, d)
          /\ twin = Fresh(a, b, c, d)
    /\ file = [open |-> FALSE, id |-> MissingFile, bytes |-> <<>>, pos |-> 0]
    /\ mpLast = NoCall
    /\ walk = WalkIdle
    /\ streams = <<>> /\ mp3DecoderInUse = <<>> /\ aacDecoderInUse = <<>>
    /\ stLast = [op |-> "none"]
    /\ volume = VolumeIdle /\ fb = FbIdle /\ fs = FsIdle
    /\ msc = <<>> /\ cmd = <<>> /\ sounds = <<>>

TwinOthers == <<rbVars, histVars, spscVars, adts, walk, streams, mp3DecoderInUse,
                aacDecoderInUse, stLast, volume, fb, fs, msc, cmd, sounds>>

\* the files of SpecMp4Twin: stereo at 44100 Hz, mono at 22050 Hz, one whose
\* sample description is not 'mp4a', and one that cannot be opened
TwinConfigs ==
    { Mp4File(<<AudioTrack>>, 2, 1, SharedSize),
      Mp4File(<<[AudioTrack EXCEPT !.channels = 1, !.rate = 22050]>>, 3, 2, SharedSize),
      Mp4File(<<[AudioTrack EXCEPT !.mp4a = FALSE]>>, 2, 2, SharedSize),
      MissingFile }
TwinFiles == {FileOf(cfg) : cfg \in TwinConfigs}

\* both parsers open the file on the SD card: usingFlash only selects the
\* handle the reads go through (SpecMp4 and SpecMp4Reuse open from both)
NextMp4Twin ==
    \/ \E fl \in TwinFiles, isFlash \in {FALSE} :
          /\ mpLast.opens < MaxOpens
          /\ OpenBoth(fl, isFlash)
          /\ UNCHANGED TwinOthers
    \/ \E bufferSize \in BufferSizes :
          ReadBoth(bufferSize) /\ UNCHANGED TwinOthers

SpecMp4Twin == InitMp4Twin /\ [][NextMp4Twin]_vars

\* C39 as stated: a parser that was opened before and a freshly constructed
\* one, both having opened the same file successfully, return the same from
\* every readNextFrame: the same length, the same seven header bytes (sample
\* rate index and channel configuration among them) and the payload of the
\* same file offset
OrigC39 ==
    (mpLast.op = "read" /\ mpLast.openOk /\ twin.openOk) =>
        /\ mpLast.ret = twin.ret
        /\ mpLast.header = twin.header
        /\ mpLast.at = twin.at

====
